---- MODULE Spec2Model ----
(***************************************************************************)
(* Moonlit Tales: the local persistence store (services/storage.ts), the   *)
(* narration controller (services/elevenlabs.ts, web and native builds),   *)
(* the ambient mix controller (services/ambientMusic.ts) and the story     *)
(* generation client (services/openai.ts), as state machines.              *)
(*                                                                         *)
(* Numbers in [0,1] are kept as integer hundredths (0.3 is 30).            *)
(***************************************************************************)
EXTENDS Integers, Sequences, FiniteSets, TLC

VARIABLES
  storage,      \* AsyncStorage: key -> stored record
  CHARACTERS,   \* the built-in character array of types/index.ts
  last,         \* the last store operation: its arguments, faults and result
  OPENAI_API_KEY,       \* openai.ts: the module's key
  ELEVENLABS_API_KEY,   \* elevenlabs.ts: the module's key
  networkCalls,         \* axios.post calls of the text and speech clients so far
  lastCall,             \* the last generate call: the key it saw and its result
  PlatformOS,           \* "unset" until the app starts, then "web" or "native"
  narrationCalls,       \* playNarration / stopNarration calls: call id -> position
  webAudioElement,      \* web build: the current HTMLAudioElement, 0 for null
  webIsPlaying,         \* web build: isPlaying
  webAudios,            \* web build: every Audio element created
  currentSound,         \* native build: the current Audio.Sound, 0 for null
  nativeIsPlaying,      \* native build: isPlaying
  nativeSounds,         \* native build: every sound created
  ambientAudio,         \* ambientMusic.ts: the current element, 0 for null
  isAmbientPlaying,
  ambientAudios,        \* every ambient Audio element created
  ambientCache,         \* the sound types that have a cached track
  ambientCalls,         \* playAmbientMusic calls: call id -> position
  currentAmbientVolume,
  fadeCalls,            \* fadeAmbientVolume calls: call id -> position
  stopped,              \* per controller: stop has returned and no play was called since
  audioLast,            \* the last step of an audio controller
  GEMINI_API_KEY,       \* gemini.ts: the module's key
  appIsReady,           \* App.tsx: prepare() has finished
  appLast,              \* the last step of a screen: what it did and found
  storyResult,          \* openai.ts: the response text and the result parsed from it
  imageCache,           \* the image clients: imageCache of each module
  imageCall,            \* the image clients: the generateCharacterImage call
  reader,               \* StoryReaderScreen.tsx: the component state
  storyOps              \* storage.ts: story writes between their read and their write

storeVars == <<storage, CHARACTERS, last>>
clientVars == <<OPENAI_API_KEY, ELEVENLABS_API_KEY, networkCalls, lastCall>>
webVars == <<webAudioElement, webIsPlaying, webAudios>>
nativeVars == <<currentSound, nativeIsPlaying, nativeSounds>>
ambientVars ==
  <<ambientAudio, isAmbientPlaying, ambientAudios, ambientCache, ambientCalls,
    currentAmbientVolume, fadeCalls>>
audioVars == <<PlatformOS, narrationCalls, webVars, nativeVars, ambientVars, stopped, audioLast>>
imageVars == <<imageCache, imageCall>>
appVars == <<GEMINI_API_KEY, appIsReady, appLast, storyResult, imageVars, reader, storyOps>>
vars == <<storeVars, clientVars, audioVars, appVars>>

----------------------------------------------------------------------------
(* Bounds of the model                                                     *)

MaxStories == 3
MaxCharacters == 1
MaxNetworkCalls == 3
MaxCalls == 2
MaxFades == 1

----------------------------------------------------------------------------
(* AsyncStorage values.  A key holds nothing (getItem resolves null), a    *)
(* JSON text (kept parsed) or a text JSON.parse rejects.                   *)

STORAGE_KEYS ==
  [STORIES |-> "@moonlit_stories", FAVORITES |-> "@moonlit_favorites",
   SETTINGS |-> "@moonlit_settings", API_KEYS |-> "@moonlit_api_keys",
   LAST_MODE |-> "@moonlit_last_mode",
   CUSTOM_CHARACTERS |-> "@moonlit_custom_characters"]

StorageKeySet == {STORAGE_KEYS[k] : k \in DOMAIN STORAGE_KEYS}

EmptyRec == [k \in {} |-> ""]
NullItem == [kind |-> "null", val |-> <<>>]
CorruptItem == [kind |-> "corrupt", val |-> <<>>]
JsonItem(v) == [kind |-> "json", val |-> v]

\* { ...a, ...b }: the fields of b over the fields of a
Spread(a, b) == [k \in (DOMAIN a) \cup (DOMAIN b) |-> IF k \in DOMAIN b THEN b[k] ELSE a[k]]

----------------------------------------------------------------------------
(* Dates.  A story is handed to saveStory with createdAt an ISO string;    *)
(* getStories turns it into a Date and JSON.stringify turns a Date back    *)
(* into its ISO string.                                                    *)

IsoString(t) == <<"iso", t>>
DateOf(t) == <<"Date", t>>
NewDate(v) == DateOf(v[2])                      \* new Date(isoString | Date)
DateToJSON(v) == IsoString(v[2])                \* Date.prototype.toJSON; a string stays itself

ReviveStory(s) == [s EXCEPT !.createdAt = NewDate(@)]
StringifyStory(s) == [s EXCEPT !.createdAt = DateToJSON(@)]
StringifyStories(list) == [i \in DOMAIN list |-> StringifyStory(list[i])]

----------------------------------------------------------------------------
(* Inputs                                                                  *)

StoryIds == {"s1", "s2"}
AudioUrls == {"a1"}

BaseStory(id) ==
  [id |-> id, title |-> "Starlit Hush", mode |-> "sleepy",
   createdAt |-> IsoString(1), isFavorite |-> FALSE,
   settings |-> [mode |-> "sleepy", length |-> "medium"]]

StoryInputs == {BaseStory(id) : id \in StoryIds}

\* narration attaches its audio to a stored story
StoryUpdates == {[audioUrl |-> a] : a \in AudioUrls}
\* updateStory takes any Partial<Story>
StoryFieldUpdates ==
  StoryUpdates \cup {[mode |-> "quest", settings |-> [mode |-> "quest", length |-> "short"]]}

CharacterIds == {"c1"}
CharacterInputs == {[id |-> c, name |-> "Luna", type |-> "custom", isCustom |-> TRUE] : c \in CharacterIds}
CharacterUpdates == {[name |-> "Nova"]}

BUILTIN_CHARACTERS ==
  <<[id |-> "pratima", type |-> "royal"], [id |-> "pranav", type |-> "royal"],
    [id |-> "lanka", type |-> "chaotic"], [id |-> "jinal", type |-> "chaotic"],
    [id |-> "pavani", type |-> "chaotic"], [id |-> "ramaya", type |-> "chaotic"]>>

DEFAULT_VOICE_SETTINGS ==
  [stability |-> 75, similarityBoost |-> 75, style |-> 50, speed |-> 100]

DEFAULT_SETTINGS ==
  [backgroundMusicVolume |-> 30, narrationVolume |-> 80,
   defaultVoice |-> "narrator", defaultLength |-> "medium",
   autoPlay |-> TRUE, hapticFeedback |-> TRUE,
   voiceSettings |-> DEFAULT_VOICE_SETTINGS, backgroundTheme |-> "dreamy"]

SettingsUpdates ==
  {[narrationVolume |-> 50], [autoPlay |-> FALSE],
   [backgroundMusicVolume |-> 10, backgroundTheme |-> "lofi"]}

\* updates that carry a part of the voice settings only
VoiceSettingsUpdates ==
  {[voiceSettings |-> [stability |-> 40]],
   [voiceSettings |-> [style |-> 10, speed |-> 120], narrationVolume |-> 50]}

EMPTY_KEYS == [openai |-> "", elevenlabs |-> "", gemini |-> ""]
KeyInputs == {[openai |-> "sk", elevenlabs |-> "el", gemini |-> ""]}

----------------------------------------------------------------------------
(* The ghost record of the last operation                                  *)

\* preList / preRec / preKeys: what getStories (getCustomCharacters), getSettings
\* (getAPIKeys) would have returned, and the keys that held something, just
\* before the operation ran.
NoOp ==
  [op |-> "none", id |-> "", arg |-> EmptyRec, threw |-> FALSE,
   rfail |-> FALSE, wfail |-> FALSE,
   retList |-> <<>>, retRec |-> EmptyRec, retBool |-> FALSE,
   preList |-> <<>>, preRec |-> EmptyRec, preKeys |-> {}]

Op(name) == [NoOp EXCEPT !.op = name]

----------------------------------------------------------------------------
(* Reads: pure functions of the stored item and of whether getItem rejects *)

GetStoriesOf(item, rfail) ==
  IF rfail \/ item.kind = "corrupt" THEN <<>>           \* catch: return []
  ELSE IF item.kind = "null" THEN <<>>
  ELSE [i \in DOMAIN item.val |-> ReviveStory(item.val[i])]

\* findIndex / find: the first match, 0 for none
FindLastIndex(list, id) ==
  IF \E i \in DOMAIN list : list[i].id = id
  THEN CHOOSE i \in DOMAIN list :
         list[i].id = id /\ \A j \in (i + 1)..Len(list) : list[j].id # id
  ELSE 0
FindIndex(list, id) ==
  IF \E i \in DOMAIN list : list[i].id = id
  THEN CHOOSE i \in DOMAIN list : list[i].id = id /\ \A j \in 1..(i - 1) : list[j].id # id
  ELSE 0

GetCustomCharactersOf(item, rfail) ==
  IF rfail \/ item.kind = "corrupt" THEN <<>>
  ELSE IF item.kind = "null" THEN <<>>
  ELSE item.val

GetAPIKeysOf(item, rfail) ==
  IF rfail \/ item.kind = "corrupt" THEN EMPTY_KEYS
  ELSE IF item.kind = "null" THEN EMPTY_KEYS
  ELSE item.val

GetSettingsOf(item, rfail) ==
  IF rfail \/ item.kind = "corrupt" THEN DEFAULT_SETTINGS
  ELSE IF item.kind = "null" THEN DEFAULT_SETTINGS
  ELSE Spread(DEFAULT_SETTINGS, item.val)

Stories == GetStoriesOf(storage[STORAGE_KEYS.STORIES], FALSE)
CustomCharacters == GetCustomCharactersOf(storage[STORAGE_KEYS.CUSTOM_CHARACTERS], FALSE)
Settings == GetSettingsOf(storage[STORAGE_KEYS.SETTINGS], FALSE)
APIKeys == GetAPIKeysOf(storage[STORAGE_KEYS.API_KEYS], FALSE)

\* AsyncStorage.setItem(key, JSON.stringify(v)), which rejects when wfail
SetItem(key, v, wfail) ==
  IF wfail THEN storage' = storage
  ELSE storage' = [storage EXCEPT ![key] = JsonItem(v)]

\* at most one storage call of an operation is made to fail
Faults == {"none", "read", "write"}

\* catch (error) { console.error(...); throw error; }
Swallowed(wfail) == FALSE
Rethrown(wfail) == wfail

----------------------------------------------------------------------------
(* Story operations                                                        *)

\* [story, ...existingStories]
AppendedStory(story, existingStories) == existingStories \o <<story>>
PrependStory(story, existingStories) == <<story>> \o existingStories

\* stories.filter((story) => story.id !== id)
FilterStories(stories, id) == SelectSeq(stories, LAMBDA s : s.id # id)

\* story.isFavorite = !story.isFavorite
SetFavorite(stories, index) == [stories EXCEPT ![index].isFavorite = TRUE]
FlipFavorite(stories, index) == [stories EXCEPT ![index].isFavorite = ~@]

SaveStory ==
  \E story \in StoryInputs, fault \in Faults :
    LET rfail == (fault = "read")
        wfail == (fault = "write")
        existingStories == GetStoriesOf(storage[STORAGE_KEYS.STORIES], rfail)
        updatedStories == PrependStory(story, existingStories)
    IN /\ Len(Stories) < MaxStories
       /\ SetItem(STORAGE_KEYS.STORIES, StringifyStories(updatedStories), wfail)
       /\ last' = [Op("saveStory") EXCEPT !.id = story.id, !.arg = story, !.rfail = rfail,
                     !.wfail = wfail, !.threw = Rethrown(wfail), !.preList = Stories]
       /\ UNCHANGED <<CHARACTERS, clientVars, appVars, audioVars>>

GetStories ==
  \E rfail \in BOOLEAN :
    /\ last' = [Op("getStories") EXCEPT !.rfail = rfail, !.preList = Stories,
                  !.retList = GetStoriesOf(storage[STORAGE_KEYS.STORIES], rfail)]
    /\ UNCHANGED <<storage, CHARACTERS, clientVars, appVars, audioVars>>

GetStoryById ==
  \E id \in StoryIds, rfail \in BOOLEAN :
    LET stories == GetStoriesOf(storage[STORAGE_KEYS.STORIES], rfail)
        index == FindIndex(stories, id)
    IN /\ last' = [Op("getStoryById") EXCEPT !.id = id, !.rfail = rfail, !.preList = Stories,
                     !.retBool = (index # 0),
                     !.retRec = IF index # 0 THEN stories[index] ELSE EmptyRec]
       /\ UNCHANGED <<storage, CHARACTERS, clientVars, appVars, audioVars>>

updateStory(id, updates, fault) ==
    LET rfail == (fault = "read")
        wfail == (fault = "write")
        stories == GetStoriesOf(storage[STORAGE_KEYS.STORIES], rfail)
        index == FindIndex(stories, id)
    IN /\ IF index # 0
          THEN SetItem(STORAGE_KEYS.STORIES,
                       StringifyStories([stories EXCEPT ![index] = Spread(@, updates)]), wfail)
          ELSE storage' = storage
       /\ last' = [Op("updateStory") EXCEPT !.id = id, !.arg = updates, !.rfail = rfail,
                     !.wfail = (index # 0 /\ wfail),
                     !.threw = (index # 0 /\ Rethrown(wfail)), !.preList = Stories]
       /\ UNCHANGED <<CHARACTERS, clientVars, appVars, audioVars>>

UpdateStory ==
  \E id \in StoryIds, updates \in StoryUpdates, fault \in Faults :
    updateStory(id, updates, fault)

UpdateStoryFields ==
  \E id \in StoryIds, updates \in StoryFieldUpdates, fault \in Faults :
    updateStory(id, updates, fault)

DeleteStory ==
  \E id \in StoryIds, fault \in Faults :
    LET rfail == (fault = "read")
        wfail == (fault = "write")
        stories == GetStoriesOf(storage[STORAGE_KEYS.STORIES], rfail)
        filteredStories == FilterStories(stories, id)
    IN /\ SetItem(STORAGE_KEYS.STORIES, StringifyStories(filteredStories), wfail)
       /\ last' = [Op("deleteStory") EXCEPT !.id = id, !.rfail = rfail, !.wfail = wfail,
                     !.threw = Rethrown(wfail), !.preList = Stories]
       /\ UNCHANGED <<CHARACTERS, clientVars, appVars, audioVars>>

ToggleFavorite ==
  \E id \in StoryIds, fault \in Faults :
    LET rfail == (fault = "read")
        wfail == (fault = "write")
        stories == GetStoriesOf(storage[STORAGE_KEYS.STORIES], rfail)
        index == FindIndex(stories, id)
        flipped == FlipFavorite(stories, index)
    IN /\ IF index # 0
          THEN SetItem(STORAGE_KEYS.STORIES, StringifyStories(flipped), wfail)
          ELSE storage' = storage
       /\ last' = [Op("toggleFavorite") EXCEPT !.id = id, !.rfail = rfail,
                     !.wfail = (index # 0 /\ wfail),
                     !.threw = (index # 0 /\ Rethrown(wfail)), !.preList = Stories,
                     !.retBool = (index # 0 /\ ~Rethrown(wfail) /\ flipped[index].isFavorite)]
       /\ UNCHANGED <<CHARACTERS, clientVars, appVars, audioVars>>

\* ---- story writes whose read and write are separate steps ------------------
\* Each write operation awaits getStories and then awaits setItem; another
\* operation can run between the two.

Writers == {1, 2}
StoryWriteOps == {"saveStory", "toggleFavorite", "updateStory", "deleteStory"}

NoStoryOp == [pc |-> "idle", op |-> "none", id |-> "", stories |-> << >>, start |-> << >>]

\* the list an operation writes for the list it read; toggleFavorite and
\* updateStory write nothing when the id is not in the list they read
WritesList(op, id, stories) ==
  op \in {"saveStory", "deleteStory"} \/ FindIndex(stories, id) # 0

WrittenList(op, id, stories) ==
  CASE op = "saveStory" -> PrependStory(BaseStory(id), stories)
    [] op = "deleteStory" -> FilterStories(stories, id)
    [] op = "toggleFavorite" ->
         IF FindIndex(stories, id) # 0 THEN FlipFavorite(stories, FindIndex(stories, id))
         ELSE stories
    [] op = "updateStory" ->
         IF FindIndex(stories, id) # 0
         THEN [stories EXCEPT ![FindIndex(stories, id)] = Spread(@, [audioUrl |-> "a1"])]
         ELSE stories

NoStoryOpBegun == \A w \in Writers : storyOps[w].pc = "idle"

\* `await getStories()` of a write operation returned; start is the list the
\* first of the operations read
StoryOpRead(w) ==
  \E op \in StoryWriteOps, id \in StoryIds :
    /\ storyOps[w].pc = "idle"
    /\ op = "saveStory" => Len(Stories) + Cardinality({v \in Writers :
                              storyOps[v].pc = "read" /\ storyOps[v].op = "saveStory"})
                            < MaxStories
    /\ storyOps' = [storyOps EXCEPT
                      ![w] = [pc |-> "read", op |-> op, id |-> id, stories |-> Stories,
                              start |-> IF NoStoryOpBegun THEN Stories
                                        ELSE storyOps[CHOOSE v \in Writers :
                                                        storyOps[v].pc # "idle"].start]]
    /\ UNCHANGED <<storeVars, clientVars, audioVars, GEMINI_API_KEY, appIsReady, appLast,
                   storyResult, imageVars, reader>>

\* `await AsyncStorage.setItem(...)` of the operation returned
StoryOpWrite(w) ==
  LET o == storyOps[w]
  IN /\ o.pc = "read"
     /\ IF WritesList(o.op, o.id, o.stories)
        THEN SetItem(STORAGE_KEYS.STORIES,
                     StringifyStories(WrittenList(o.op, o.id, o.stories)), FALSE)
        ELSE storage' = storage
     /\ storyOps' = [storyOps EXCEPT ![w].pc = "done"]
     /\ UNCHANGED <<CHARACTERS, last, clientVars, audioVars, GEMINI_API_KEY, appIsReady,
                    appLast, storyResult, imageVars, reader>>

----------------------------------------------------------------------------
(* API keys, settings, custom characters, clear-all                        *)

\* { ...currentSettings, ...settings }
ReplaceSettings(currentSettings, settings) == settings
\* a merge that goes into the nested record
DeepMergeSettings(currentSettings, settings) ==
  [k \in (DOMAIN currentSettings) \cup (DOMAIN settings) |->
     IF k \notin DOMAIN settings THEN currentSettings[k]
     ELSE IF k = "voiceSettings" THEN Spread(currentSettings[k], settings[k])
     ELSE settings[k]]
MergeSettings(currentSettings, settings) == Spread(currentSettings, settings)

SaveAPIKeys ==
  \E keys \in KeyInputs \cup {EMPTY_KEYS}, wfail \in BOOLEAN :
    /\ SetItem(STORAGE_KEYS.API_KEYS, keys, wfail)
    /\ last' = [Op("saveAPIKeys") EXCEPT !.arg = keys, !.wfail = wfail,
                  !.threw = Rethrown(wfail), !.preRec = APIKeys]
    /\ UNCHANGED <<CHARACTERS, clientVars, appVars, audioVars>>

GetAPIKeys ==
  \E rfail \in BOOLEAN :
    /\ last' = [Op("getAPIKeys") EXCEPT !.rfail = rfail, !.preRec = APIKeys,
                  !.retRec = GetAPIKeysOf(storage[STORAGE_KEYS.API_KEYS], rfail)]
    /\ UNCHANGED <<storage, CHARACTERS, clientVars, appVars, audioVars>>

saveSettings(settings, fault) ==
  LET rfail == (fault = "read")
      wfail == (fault = "write")
      currentSettings == GetSettingsOf(storage[STORAGE_KEYS.SETTINGS], rfail)
      updatedSettings == MergeSettings(currentSettings, settings)
  IN /\ SetItem(STORAGE_KEYS.SETTINGS, updatedSettings, wfail)
     /\ last' = [Op("saveSettings") EXCEPT !.arg = settings, !.rfail = rfail,
                   !.wfail = wfail, !.threw = Rethrown(wfail), !.preRec = Settings]
     /\ UNCHANGED <<CHARACTERS, clientVars, appVars, audioVars>>

SaveSettings ==
  \E settings \in SettingsUpdates, fault \in Faults : saveSettings(settings, fault)

SaveVoiceSettings ==
  \E settings \in VoiceSettingsUpdates, fault \in Faults : saveSettings(settings, fault)

GetSettings ==
  \E rfail \in BOOLEAN :
    /\ last' = [Op("getSettings") EXCEPT !.rfail = rfail, !.preRec = Settings,
                  !.retRec = GetSettingsOf(storage[STORAGE_KEYS.SETTINGS], rfail)]
    /\ UNCHANGED <<storage, CHARACTERS, clientVars, appVars, audioVars>>

SaveCustomCharacter ==
  \E character \in CharacterInputs, fault \in Faults :
    LET rfail == (fault = "read")
        wfail == (fault = "write")
        existingCharacters == GetCustomCharactersOf(storage[STORAGE_KEYS.CUSTOM_CHARACTERS], rfail)
        updatedCharacters == existingCharacters \o <<character>>
    IN /\ Len(CustomCharacters) < MaxCharacters
       /\ SetItem(STORAGE_KEYS.CUSTOM_CHARACTERS, updatedCharacters, wfail)
       /\ last' = [Op("saveCustomCharacter") EXCEPT !.id = character.id, !.arg = character,
                     !.rfail = rfail, !.wfail = wfail, !.threw = Rethrown(wfail),
                     !.preList = CustomCharacters]
       /\ UNCHANGED <<CHARACTERS, clientVars, appVars, audioVars>>

GetCustomCharacters ==
  \E rfail \in BOOLEAN :
    /\ last' = [Op("getCustomCharacters") EXCEPT !.rfail = rfail, !.preList = CustomCharacters,
                  !.retList = GetCustomCharactersOf(storage[STORAGE_KEYS.CUSTOM_CHARACTERS], rfail)]
    /\ UNCHANGED <<storage, CHARACTERS, clientVars, appVars, audioVars>>

UpdateCustomCharacter ==
  \E id \in CharacterIds, updates \in CharacterUpdates, fault \in Faults :
    LET rfail == (fault = "read")
        wfail == (fault = "write")
        characters == GetCustomCharactersOf(storage[STORAGE_KEYS.CUSTOM_CHARACTERS], rfail)
        index == FindIndex(characters, id)
    IN /\ IF index # 0
          THEN SetItem(STORAGE_KEYS.CUSTOM_CHARACTERS,
                       [characters EXCEPT ![index] = Spread(@, updates)], wfail)
          ELSE storage' = storage
       /\ last' = [Op("updateCustomCharacter") EXCEPT !.id = id, !.arg = updates,
                     !.rfail = rfail, !.wfail = (index # 0 /\ wfail),
                     !.threw = (index # 0 /\ Rethrown(wfail)), !.preList = CustomCharacters]
       /\ UNCHANGED <<CHARACTERS, clientVars, appVars, audioVars>>

DeleteCustomCharacter ==
  \E id \in CharacterIds, fault \in Faults :
    LET rfail == (fault = "read")
        wfail == (fault = "write")
        characters == GetCustomCharactersOf(storage[STORAGE_KEYS.CUSTOM_CHARACTERS], rfail)
        filteredCharacters == SelectSeq(characters, LAMBDA c : c.id # id)
    IN /\ SetItem(STORAGE_KEYS.CUSTOM_CHARACTERS, filteredCharacters, wfail)
       /\ last' = [Op("deleteCustomCharacter") EXCEPT !.id = id, !.rfail = rfail,
                     !.wfail = wfail, !.threw = Rethrown(wfail), !.preList = CustomCharacters]
       /\ UNCHANGED <<CHARACTERS, clientVars, appVars, audioVars>>

\* the keys handed to AsyncStorage.multiRemove
ClearedKeysWithoutSettings ==
  {STORAGE_KEYS.STORIES, STORAGE_KEYS.FAVORITES,
   STORAGE_KEYS.LAST_MODE, STORAGE_KEYS.CUSTOM_CHARACTERS}

ClearedKeys ==
  {STORAGE_KEYS.STORIES, STORAGE_KEYS.FAVORITES, STORAGE_KEYS.SETTINGS,
   STORAGE_KEYS.LAST_MODE, STORAGE_KEYS.CUSTOM_CHARACTERS}

HeldKeys == {k \in StorageKeySet : storage[k].kind # "null"}

\* a multiRemove that rejects is taken to have removed nothing
ClearAllData ==
  \E wfail \in BOOLEAN :
    /\ storage' = IF wfail THEN storage
                  ELSE [k \in StorageKeySet |-> IF k \in ClearedKeys THEN NullItem ELSE storage[k]]
    /\ last' = [Op("clearAllData") EXCEPT !.wfail = wfail, !.threw = Rethrown(wfail),
                  !.preKeys = HeldKeys]
    /\ UNCHANGED <<CHARACTERS, clientVars, appVars, audioVars>>

\* the environment leaves a text under a key that JSON.parse rejects
JsonKeys ==
  {STORAGE_KEYS.STORIES, STORAGE_KEYS.SETTINGS, STORAGE_KEYS.API_KEYS,
   STORAGE_KEYS.CUSTOM_CHARACTERS}

CorruptRecord ==
  \E k \in JsonKeys :
    /\ storage[k].kind = "json"
    /\ storage' = [storage EXCEPT ![k] = CorruptItem]
    /\ last' = [Op("corruptRecord") EXCEPT !.id = k]
    /\ UNCHANGED <<CHARACTERS, clientVars, appVars, audioVars>>

----------------------------------------------------------------------------
\* The remote clients: openai.ts generateStory and elevenlabs.ts
\* generateNarration.  A request is modelled by its outcome.

ApiKeyInputs == {"", "key"}

\* the outcome of an axios.post: a response, an error that carries the
\* provider's message, or an error that carries none
RemoteOutcomes == {"ok", "providerError", "plainError"}

NoCall ==
  [op |-> "none", key |-> "", success |-> FALSE, error |-> "", threw |-> FALSE,
   netBefore |-> 0]

KeyNeverMissing(key) == FALSE

\* `if (!OPENAI_API_KEY)` / `if (!ELEVENLABS_API_KEY)`
KeyMissing(key) == key = ""

setOpenAIKey(key) ==
  /\ OPENAI_API_KEY' = key
  /\ UNCHANGED <<ELEVENLABS_API_KEY, networkCalls, lastCall, storeVars, audioVars, appVars>>

SetOpenAIKey == \E key \in ApiKeyInputs : setOpenAIKey(key)

setElevenLabsKey(key) ==
  /\ ELEVENLABS_API_KEY' = key
  /\ UNCHANGED <<OPENAI_API_KEY, networkCalls, lastCall, storeVars, audioVars, appVars>>

SetElevenLabsKey == \E key \in ApiKeyInputs : setElevenLabsKey(key)

\* the result object of a generate call that reached the network
RemoteResult(outcome, providerMessage, fallback) ==
  CASE outcome = "ok" -> [success |-> TRUE, error |-> ""]
    [] outcome = "providerError" -> [success |-> FALSE, error |-> providerMessage]
    [] OTHER -> [success |-> FALSE, error |-> fallback]

Generate(op, key, configError, fallback) ==
  \/ /\ KeyMissing(key)
     /\ lastCall' = [op |-> op, key |-> key, success |-> FALSE,
                     error |-> configError, threw |-> FALSE,
                     netBefore |-> networkCalls]
     /\ UNCHANGED networkCalls
  \/ /\ ~KeyMissing(key)
     /\ networkCalls < MaxNetworkCalls
     /\ \E outcome \in RemoteOutcomes :
          LET r == RemoteResult(outcome, "provider message", fallback)
          IN lastCall' = [op |-> op, key |-> key, success |-> r.success,
                          error |-> r.error, threw |-> FALSE,
                          netBefore |-> networkCalls]
     /\ networkCalls' = networkCalls + 1

GenerateStory ==
  /\ Generate("generateStory", OPENAI_API_KEY,
              "OpenAI API key not configured. Please set your API key in Settings.",
              "Failed to generate story. Please try again.")
  /\ UNCHANGED <<OPENAI_API_KEY, ELEVENLABS_API_KEY, storeVars, audioVars, appVars>>

GenerateNarration ==
  /\ Generate("generateNarration", ELEVENLABS_API_KEY,
              "ElevenLabs API key not configured. Please set your API key in Settings.",
              "Failed to generate narration. Please try again.")
  /\ UNCHANGED <<OPENAI_API_KEY, ELEVENLABS_API_KEY, storeVars, audioVars, appVars>>

\* ---- openai.ts: the title and the story in the response text -------------
\* A text is a sequence of pieces: the two markers (in any letter case, the
\* patterns carry the i flag), a word, a blank and a line break.

MaxResponseLen == 5

TITLE_MARK == "TITLE:"
STORY_MARK == "STORY:"
LineBreak == "\n"
Pieces == {TITLE_MARK, STORY_MARK, "Once", " ", LineBreak}
ResponseTexts == UNION {[1 .. n -> Pieces] : n \in 1 .. MaxResponseLen}

FALLBACK_TITLE == <<"A Moonlit Tale">>

\* \s
IsSpace(ch) == ch \in {" ", LineBreak}
\* the character class of a group: . takes all but a line break, [\s\S] takes all
DOT == "."
Accepts(class, ch) == class # DOT \/ ch # LineBreak

SetMax(S) == CHOOSE x \in S : \A y \in S : y <= x
SetMin(S) == CHOOSE x \in S : \A y \in S : x <= y

\* String.prototype.trim
Trim(text) ==
  LET inked == {i \in DOMAIN text : ~IsSpace(text[i])}
  IN IF inked = {} THEN << >> ELSE SubSeq(text, SetMin(inked), SetMax(inked))

\* where the group can start when the marker is at i: after a run of \s,
\* on a piece the group accepts
GroupStarts(text, i, class) ==
  {p \in (i + 1) .. Len(text) :
     Accepts(class, text[p]) /\ \A j \in (i + 1) .. (p - 1) : IsSpace(text[j])}

\* the greedy group runs on while the pieces are accepted
EndOfText(text, p, class) == Len(text)
EndOfGroup(text, p, class) ==
  SetMax({q \in p .. Len(text) : \A j \in p .. q : Accepts(class, text[j])})

\* text.match(/MARK\s*(group+)/i): the leftmost marker that lets the
\* pattern match; \s* takes as much as leaves a piece for the group;
\* << >> stands for null, else <<the group>>
Match(text, mark, class) ==
  LET at == {i \in DOMAIN text : text[i] = mark /\ GroupStarts(text, i, class) # {}}
  IN IF at = {} THEN << >>
     ELSE LET p == SetMax(GroupStarts(text, SetMin(at), class))
          IN <<SubSeq(text, p, EndOfGroup(text, p, class))>>

titleMatch(responseText) == Match(responseText, TITLE_MARK, DOT)
storyMatch(responseText) == Match(responseText, STORY_MARK, "[\\s\\S]")

ParseStory(responseText) ==
  [title |-> IF titleMatch(responseText) # << >>
             THEN Trim(titleMatch(responseText)[1]) ELSE FALLBACK_TITLE,
   content |-> IF storyMatch(responseText) # << >>
               THEN Trim(storyMatch(responseText)[1]) ELSE responseText,
   success |-> TRUE, error |-> ""]

NoStoryResult ==
  [pending |-> FALSE, text |-> << >>,
   result |-> [title |-> << >>, content |-> << >>, success |-> FALSE, error |-> ""]]

\* generateStory with a key: the request is posted and awaited
GenerateStoryRequest ==
  /\ ~KeyMissing(OPENAI_API_KEY)
  /\ ~storyResult.pending
  /\ networkCalls < MaxNetworkCalls
  /\ networkCalls' = networkCalls + 1
  /\ storyResult' = [NoStoryResult EXCEPT !.pending = TRUE]
  /\ UNCHANGED <<OPENAI_API_KEY, ELEVENLABS_API_KEY, GEMINI_API_KEY, appIsReady, appLast,
                 imageVars, storyOps, reader, lastCall, storeVars, audioVars>>

\* the provider answers with a text, which is parsed into the result
GenerateStoryParsed ==
  /\ storyResult.pending
  /\ \E responseText \in ResponseTexts :
       storyResult' = [pending |-> FALSE, text |-> responseText,
                       result |-> ParseStory(responseText)]
  /\ lastCall' = [op |-> "generateStory", key |-> OPENAI_API_KEY, success |-> TRUE,
                  error |-> "", threw |-> FALSE, netBefore |-> networkCalls - 1]
  /\ UNCHANGED <<OPENAI_API_KEY, ELEVENLABS_API_KEY, GEMINI_API_KEY, appIsReady, appLast,
                 imageVars, storyOps, reader, networkCalls, storeVars, audioVars>>

\* ---- the image clients: gemini.ts (Gemini) and its DALL-E counterpart ------

Providers == {"gemini", "dalle"}
\* a built-in character and a custom one
ImageIds == {"pratima", "c1"}
CustomPrompts == {"", "a fox spirit"}
ImageOutcomes == {"image", "noImage", "rateLimited", "blocked", "otherError"}

maxRetries == 3

setGeminiKey(key) ==
  /\ GEMINI_API_KEY' = key
  /\ UNCHANGED <<appIsReady, appLast, storyResult, imageVars, storyOps, reader, clientVars, storeVars, audioVars>>

SetGeminiKey == \E key \in ApiKeyInputs : setGeminiKey(key)

\* the key the module reads: GEMINI_API_KEY, or getOpenAIKey()
ProviderKey(provider) == IF provider = "gemini" THEN GEMINI_API_KEY ELSE OPENAI_API_KEY

\* customPrompt || CHARACTER_PROMPTS[characterId]; "" stands for undefined
AnyPrompt(characterId, customPrompt) == "a prompt"
PromptOf(characterId, customPrompt) ==
  IF customPrompt # "" THEN customPrompt
  ELSE IF \E i \in DOMAIN BUILTIN_CHARACTERS : BUILTIN_CHARACTERS[i].id = characterId
       THEN "a built-in prompt"
       ELSE ""

ImageResult(imageUrl, error) == [imageUrl |-> imageUrl, success |-> error = "", error |-> error]

NoImageCall ==
  [pc |-> "idle", provider |-> "gemini", characterId |-> "", attempt |-> 0,
   outcomes |-> << >>, key |-> "", hit |-> FALSE, customPrompt |-> "",
   cacheBefore |-> [provider \in Providers |-> [id \in ImageIds |-> ""]],
   result |-> ImageResult("", "")]

ImageAwaited == imageCall.pc = "request"

\* generateCharacterImage up to its first await
GenerateCharacterImage ==
  \E provider \in Providers, characterId \in ImageIds, forceRegenerate \in BOOLEAN,
     customPrompt \in CustomPrompts :
    LET cached == imageCache[provider][characterId]
        key == ProviderKey(provider)
        prompt == PromptOf(characterId, customPrompt)
        call == [NoImageCall EXCEPT !.provider = provider, !.characterId = characterId,
                                    !.key = key, !.customPrompt = customPrompt,
                                    !.cacheBefore = imageCache]
    IN /\ ~ImageAwaited
       /\ imageCall' =
            IF ~forceRegenerate /\ cached # ""
            THEN [call EXCEPT !.pc = "done", !.hit = TRUE, !.result = ImageResult(cached, "")]
            ELSE IF KeyMissing(key)
            THEN [call EXCEPT !.pc = "done", !.result = ImageResult("", "not configured")]
            ELSE IF prompt = ""
            THEN [call EXCEPT !.pc = "done", !.result = ImageResult("", "no prompt")]
            ELSE [call EXCEPT !.pc = "request"]
       /\ UNCHANGED <<imageCache, GEMINI_API_KEY, appIsReady, appLast, storyResult, reader, storyOps,
                      clientVars, storeVars, audioVars>>

\* what a failed attempt leaves: the DALL-E module returns a result of its
\* own for 429 and 400 and null otherwise; null becomes the generic failure
FailureOf(provider, outcome) ==
  IF provider = "dalle" /\ outcome = "rateLimited" THEN "rate limit"
  ELSE IF provider = "dalle" /\ outcome = "blocked" THEN "blocked"
  ELSE "generation failed"

\* only the Gemini loop goes on, after a 429, while attempts are left
TriesAgainAfterAnyFailure(provider, outcome, attempt) ==
  provider = "gemini" /\ attempt + 1 < maxRetries
TriesAgain(provider, outcome, attempt) ==
  provider = "gemini" /\ outcome = "rateLimited" /\ attempt + 1 < maxRetries

\* one axios.post of the call is answered
ImageAnswered ==
  \E outcome \in ImageOutcomes :
    LET call == [imageCall EXCEPT !.outcomes = Append(@, outcome), !.attempt = @ + 1]
    IN /\ ImageAwaited
       /\ IF outcome = "image"
          THEN /\ imageCache' = [imageCache EXCEPT
                                   ![imageCall.provider][imageCall.characterId] = "img"]
               /\ imageCall' = [call EXCEPT !.pc = "done", !.result = ImageResult("img", "")]
          ELSE /\ UNCHANGED imageCache
               /\ imageCall' =
                    IF TriesAgain(imageCall.provider, outcome, imageCall.attempt)
                    THEN call
                    ELSE [call EXCEPT !.pc = "done",
                            !.result = ImageResult("", FailureOf(imageCall.provider, outcome))]
       /\ UNCHANGED <<GEMINI_API_KEY, appIsReady, appLast, storyResult, reader, storyOps,
                      clientVars, storeVars, audioVars>>

\* clearImageCache of either module
ClearImageCache ==
  \E provider \in Providers :
    /\ ~ImageAwaited
    /\ imageCache' = [imageCache EXCEPT ![provider] = [id \in ImageIds |-> ""]]
    /\ UNCHANGED <<imageCall, GEMINI_API_KEY, appIsReady, appLast, storyResult, reader, storyOps,
                   clientVars, storeVars, audioVars>>

----------------------------------------------------------------------------
\* The audio controllers.  A build is one platform: the web build loads the
\* HTMLAudioElement narration module, the native build the expo-av one; the
\* ambient controller is shared and plays on web only.

Platforms == {"web", "native"}
CallIds == 1 .. MaxCalls
SoundTypes == {"moonlit_wind", "forest_night"}

IdleCall == [pc |-> "idle", kind |-> "none", el |-> 0, target |-> 0, ok |-> FALSE,
             alone |-> TRUE, prev |-> 0, cut |-> FALSE]
NoAudioOp == [op |-> "none", call |-> 0]

StartApp ==
  /\ PlatformOS = "unset"
  /\ \E os \in Platforms : PlatformOS' = os
  /\ UNCHANGED <<narrationCalls, webVars, nativeVars, ambientVars, stopped, audioLast,
                 storeVars, clientVars, appVars>>

InFlight(call) == call.pc \notin {"idle", "done", "threw"}

\* call ids are handed out in order
NextCall(calls, c) == calls[c].pc = "idle" /\ \A d \in CallIds : d < c => calls[d].pc # "idle"

NoOtherInFlight(calls, c) == \A d \in CallIds : d # c => ~InFlight(calls[d])

\* a step taken by `actor` (a call id, 0 for a synchronous operation) ran
\* while the other calls were suspended
\* Volumes are fixed-point numbers: One stands for 1.0.  A volume given in
\* hundredths is a multiple of Steps units, so that the steps of a fade that
\* starts from such a volume are exact.
Steps == 20
One == 100 * Steps
Hundredths(h) == h * Steps

\* Math.max(0, Math.min(1, v))
Clamp(v) == IF v < 0 THEN 0 ELSE IF v > One THEN One ELSE v

\* seekNarration(positionMillis), in milliseconds
SeekInputs == {2000}

\* setNarrationVolume(volume)
NarrationVolumeInputs == {Hundredths(150)}

Touch(calls, actor) ==
  [c \in CallIds |->
     IF c # actor /\ InFlight(calls[c]) THEN [calls[c] EXCEPT !.alone = FALSE]
     ELSE calls[c]]

StillPlaying(audios, g) == audios

\* HTMLMediaElement.pause(): the element stops and a pending play() promise
\* on it rejects
Paused(audios, g) == IF g = 0 THEN audios ELSE [audios EXCEPT ![g].playing = FALSE]

\* webAudioElement.currentTime = 0
Rewound(audios, g) == IF g = 0 THEN audios ELSE [audios EXCEPT ![g].currentTime = 0]

\* new Audio() with volume = 0.9; currentTime is in seconds
NewAudio ==
  [playing |-> FALSE, onended |-> FALSE, currentTime |-> 0, volume |-> Hundredths(90)]

\* the guard of resumeNarration
MayResumeAnyway(handle, playing) == handle # 0
MayResume(handle, playing) == handle # 0 /\ ~playing

AbortPlays(calls, g) ==
  [c \in CallIds |->
     IF g # 0 /\ calls[c].pc = "awaitPlay" /\ calls[c].target = g
     THEN [calls[c] EXCEPT !.ok = FALSE] ELSE calls[c]]

\* ---- web build: playNarration --------------------------------------------

\* playNarration up to `await new Promise(...)`: stopNarration has no real
\* suspension point on web, then the element is created and load() called
WebPlayNarration(c) ==
  /\ PlatformOS = "web"
  /\ NextCall(narrationCalls, c)
  /\ LET g == webAudioElement
         e == Len(webAudios) + 1
     IN /\ webAudios' = Append(Rewound(Paused(webAudios, g), g), NewAudio)
        /\ webAudioElement' = e
        /\ webIsPlaying' = IF g # 0 THEN FALSE ELSE webIsPlaying
        /\ narrationCalls' =
             [Touch(AbortPlays(narrationCalls, g), c) EXCEPT
                ![c] = [pc |-> "awaitLoad", kind |-> "play", el |-> e, target |-> 0,
                        ok |-> FALSE,
                        alone |-> NoOtherInFlight(narrationCalls, c),
                        prev |-> g,
                        cut |-> g # 0 /\ webAudios[g].playing]]
  /\ stopped' = [stopped EXCEPT !.narration = FALSE]
  /\ audioLast' = [op |-> "playNarration", call |-> c]
  /\ UNCHANGED <<PlatformOS, nativeVars, ambientVars, storeVars, clientVars, appVars>>

\* canplaythrough, loadeddata or the 5 s timeout resolved the load promise:
\* the handlers are installed on, and play() is called on, the element the
\* module variable holds now
WebPlayLoaded(c) ==
  /\ narrationCalls[c].pc = "awaitLoad"
  /\ IF webAudioElement = 0
     THEN /\ webIsPlaying' = FALSE
          /\ narrationCalls' = [Touch(narrationCalls, c) EXCEPT ![c].pc = "threw"]
          /\ audioLast' = [op |-> "playThrew", call |-> c]
          /\ UNCHANGED <<webAudioElement, webAudios>>
     ELSE \E ok \in BOOLEAN :
            LET g == webAudioElement
            IN /\ webAudios' = [webAudios EXCEPT
                                  ![g].onended = TRUE,
                                  ![g].playing = IF ok THEN TRUE ELSE @]
               /\ narrationCalls' = [Touch(narrationCalls, c) EXCEPT
                                       ![c].pc = "awaitPlay",
                                       ![c].target = g,
                                       ![c].ok = ok]
               /\ audioLast' = [op |-> "playLoaded", call |-> c]
               /\ UNCHANGED <<webAudioElement, webIsPlaying>>
  /\ UNCHANGED <<PlatformOS, nativeVars, ambientVars, stopped, storeVars, clientVars, appVars>>

\* audio.onerror rejected the load promise
WebPlayLoadError(c) ==
  /\ narrationCalls[c].pc = "awaitLoad"
  /\ webIsPlaying' = FALSE
  /\ narrationCalls' = [Touch(narrationCalls, c) EXCEPT ![c].pc = "threw"]
  /\ audioLast' = [op |-> "playThrew", call |-> c]
  /\ UNCHANGED <<PlatformOS, webAudioElement, webAudios, nativeVars, ambientVars,
                 stopped, storeVars, clientVars, appVars>>

\* `await webAudioElement.play()` settled
WebPlaySettled(c) ==
  /\ narrationCalls[c].pc = "awaitPlay"
  /\ LET ok == narrationCalls[c].ok
     IN /\ webIsPlaying' = ok
        /\ narrationCalls' = [Touch(narrationCalls, c) EXCEPT
                                ![c].pc = IF ok THEN "done" ELSE "threw"]
        /\ audioLast' = [op |-> IF ok THEN "playDone" ELSE "playThrew", call |-> c]
  /\ UNCHANGED <<PlatformOS, webAudioElement, webAudios, nativeVars, ambientVars,
                 stopped, storeVars, clientVars, appVars>>

WebPauseNarration ==
  /\ PlatformOS = "web"
  /\ IF webAudioElement # 0 /\ webIsPlaying
     THEN /\ webAudios' = Paused(webAudios, webAudioElement)
          /\ webIsPlaying' = FALSE
          /\ narrationCalls' = Touch(AbortPlays(narrationCalls, webAudioElement), 0)
     ELSE /\ narrationCalls' = Touch(narrationCalls, 0)
          /\ UNCHANGED <<webAudios, webIsPlaying>>
  /\ audioLast' = [op |-> "pauseNarration", call |-> 0]
  /\ UNCHANGED <<PlatformOS, webAudioElement, nativeVars, ambientVars, stopped,
                 storeVars, clientVars, appVars>>

\* element g is still loading for the playNarration call that created it
Loading(g) ==
  \E c \in CallIds : narrationCalls[c].pc = "awaitLoad" /\ narrationCalls[c].el = g

\* resumeNarration: the play() promise of an element that may play resolves
\* without any other step of the controller in between; on an element that
\* is still loading it stays pending and settles as the play() of
\* playNarration does
WebResumeNarration ==
  /\ PlatformOS = "web"
  /\ IF MayResume(webAudioElement, webIsPlaying) /\ ~Loading(webAudioElement)
     THEN \E ok \in BOOLEAN :
            /\ webAudios' = [webAudios EXCEPT
                               ![webAudioElement].playing = IF ok THEN TRUE ELSE @]
            /\ webIsPlaying' = ok
     ELSE UNCHANGED <<webAudios, webIsPlaying>>
  /\ narrationCalls' = Touch(narrationCalls, 0)
  /\ audioLast' = [op |-> "resumeNarration", call |-> 0]
  /\ UNCHANGED <<PlatformOS, webAudioElement, nativeVars, ambientVars, stopped,
                 storeVars, clientVars, appVars>>

WebStopNarration ==
  /\ PlatformOS = "web"
  /\ LET g == webAudioElement
     IN /\ webAudios' = Rewound(Paused(webAudios, g), g)
        /\ webAudioElement' = 0
        /\ webIsPlaying' = IF g # 0 THEN FALSE ELSE webIsPlaying
        /\ narrationCalls' = Touch(AbortPlays(narrationCalls, g), 0)
  /\ stopped' = [stopped EXCEPT !.narration = TRUE]
  /\ audioLast' = [op |-> "stopNarration", call |-> 0]
  /\ UNCHANGED <<PlatformOS, nativeVars, ambientVars, storeVars, clientVars, appVars>>

WebSeekNarration(positionMillis) ==
  /\ PlatformOS = "web"
  /\ webAudios' = IF webAudioElement # 0
                  THEN [webAudios EXCEPT
                          ![webAudioElement].currentTime = positionMillis \div 1000]
                  ELSE webAudios
  /\ narrationCalls' = Touch(narrationCalls, 0)
  /\ audioLast' = [op |-> "seekNarration", call |-> 0]
  /\ UNCHANGED <<PlatformOS, webAudioElement, webIsPlaying, nativeVars, ambientVars,
                 stopped, storeVars, clientVars, appVars>>

WebSetNarrationVolume(volume) ==
  /\ PlatformOS = "web"
  /\ webAudios' = IF webAudioElement # 0
                  THEN [webAudios EXCEPT ![webAudioElement].volume = Clamp(volume)]
                  ELSE webAudios
  /\ narrationCalls' = Touch(narrationCalls, 0)
  /\ audioLast' = [op |-> "setNarrationVolume", call |-> 0]
  /\ UNCHANGED <<PlatformOS, webAudioElement, webIsPlaying, nativeVars, ambientVars,
                 stopped, storeVars, clientVars, appVars>>

\* the element reached the end of its media
WebEnded(e) ==
  /\ e \in DOMAIN webAudios
  /\ webAudios[e].playing
  /\ \A c \in CallIds :
       ~(narrationCalls[c].pc = "awaitPlay" /\ narrationCalls[c].target = e)
  /\ webAudios' = [webAudios EXCEPT ![e].playing = FALSE]
  /\ webIsPlaying' = IF webAudios[e].onended THEN FALSE ELSE webIsPlaying
  /\ audioLast' = [op |-> "ended", call |-> 0]
  /\ UNCHANGED <<PlatformOS, webAudioElement, narrationCalls, nativeVars, ambientVars,
                 stopped, storeVars, clientVars, appVars>>

\* isNarrationPlaying() and the module's handle, on whichever build runs
IsNarrationPlaying == IF PlatformOS = "web" THEN webIsPlaying ELSE nativeIsPlaying

CurrentHandle == IF PlatformOS = "web" THEN webAudioElement ELSE currentSound

\* ---- native build: playNarration / stopNarration --------------------------

\* the sound of createAsync({uri}, {shouldPlay: true}); positionMillis is in
\* milliseconds
NewSound == [loaded |-> TRUE, playing |-> TRUE, positionMillis |-> 0, volume |-> One]

\* stopNarration as called on its own or as the first statement of
\* playNarration, up to its first real suspension point: with a current
\* sound, stopAsync() is issued on it; without one, stopNarration returns
NativeBegin(c, kind) ==
  /\ PlatformOS = "native"
  /\ NextCall(narrationCalls, c)
  /\ LET g == currentSound
         alone == NoOtherInFlight(narrationCalls, c)
         pc == IF g = 0 THEN (IF kind = "stop" THEN "done" ELSE "awaitCreate")
               ELSE IF nativeSounds[g].loaded THEN "awaitStop" ELSE "threw"
     IN /\ nativeSounds' = IF g # 0 /\ nativeSounds[g].loaded
                           THEN [nativeSounds EXCEPT ![g].playing = FALSE,
                                                     ![g].positionMillis = 0]
                           ELSE nativeSounds
        /\ narrationCalls' =
             [Touch(narrationCalls, c) EXCEPT
                ![c] = [pc |-> pc, kind |-> kind, el |-> 0, target |-> g, ok |-> FALSE,
                        alone |-> alone,
                        prev |-> g,
                        cut |-> g # 0 /\ nativeSounds[g].playing]]
        /\ stopped' = [stopped EXCEPT
                         !.narration = IF kind = "play" THEN FALSE
                                       ELSE IF pc = "done" THEN TRUE ELSE @]
        /\ audioLast' = [op |-> IF kind = "play" THEN "playNarration"
                                ELSE IF pc = "done" THEN "stopNarration"
                                ELSE "stopBegin",
                         call |-> c]
  /\ UNCHANGED <<PlatformOS, currentSound, nativeIsPlaying, webVars, ambientVars,
                 storeVars, clientVars, appVars>>

NativePlayNarration(c) == NativeBegin(c, "play")

NativeStopNarration(c) == NativeBegin(c, "stop")

\* stopAsync() resolved: `await currentSound.unloadAsync()` reads the module
\* variable again; on null it throws, on an unloaded sound it does nothing
NativeStopped(c) ==
  /\ narrationCalls[c].pc = "awaitStop"
  /\ LET g == currentSound
         fine == g # 0
     IN /\ nativeSounds' = IF fine
                           THEN [nativeSounds EXCEPT ![g].loaded = FALSE,
                                                     ![g].playing = FALSE]
                           ELSE nativeSounds
        /\ narrationCalls' = [Touch(narrationCalls, c) EXCEPT
                                ![c].pc = IF fine THEN "awaitUnload" ELSE "threw"]
        /\ audioLast' = [op |-> IF fine THEN "stopUnload" ELSE "stopThrew", call |-> c]
  /\ UNCHANGED <<PlatformOS, currentSound, nativeIsPlaying, webVars, ambientVars,
                 stopped, storeVars, clientVars, appVars>>

\* unloadAsync() resolved: currentSound = null; isPlaying = false
NativeUnloaded(c) ==
  /\ narrationCalls[c].pc = "awaitUnload"
  /\ currentSound' = 0
  /\ nativeIsPlaying' = FALSE
  /\ LET kind == narrationCalls[c].kind
     IN /\ narrationCalls' = [Touch(narrationCalls, c) EXCEPT
                                ![c].pc = IF kind = "stop" THEN "done" ELSE "awaitCreate"]
        /\ stopped' = [stopped EXCEPT !.narration = IF kind = "stop" THEN TRUE ELSE @]
        /\ audioLast' = [op |-> IF kind = "stop" THEN "stopNarration" ELSE "playStopped",
                         call |-> c]
  /\ UNCHANGED <<PlatformOS, nativeSounds, webVars, ambientVars, storeVars, clientVars, appVars>>

\* setAudioModeAsync and Audio.Sound.createAsync(..., {shouldPlay: true})
\* settled
NativeCreated(c) ==
  /\ narrationCalls[c].pc = "awaitCreate"
  /\ \E ok \in BOOLEAN :
       IF ok
       THEN /\ nativeSounds' = Append(nativeSounds, NewSound)
            /\ currentSound' = Len(nativeSounds) + 1
            /\ nativeIsPlaying' = TRUE
            /\ narrationCalls' = [Touch(narrationCalls, c) EXCEPT
                                    ![c].pc = "done",
                                    ![c].el = Len(nativeSounds) + 1]
            /\ audioLast' = [op |-> "playDone", call |-> c]
       ELSE /\ narrationCalls' = [Touch(narrationCalls, c) EXCEPT ![c].pc = "threw"]
            /\ audioLast' = [op |-> "playThrew", call |-> c]
            /\ UNCHANGED <<nativeSounds, currentSound, nativeIsPlaying>>
  /\ UNCHANGED <<PlatformOS, webVars, ambientVars, stopped, storeVars, clientVars, appVars>>

\* pauseAsync() on an unloaded sound rejects and isPlaying keeps its value
NativePauseNarration ==
  /\ PlatformOS = "native"
  /\ IF currentSound # 0 /\ nativeIsPlaying /\ nativeSounds[currentSound].loaded
     THEN /\ nativeSounds' = [nativeSounds EXCEPT ![currentSound].playing = FALSE]
          /\ nativeIsPlaying' = FALSE
     ELSE UNCHANGED <<nativeSounds, nativeIsPlaying>>
  /\ narrationCalls' = Touch(narrationCalls, 0)
  /\ audioLast' = [op |-> "pauseNarration", call |-> 0]
  /\ UNCHANGED <<PlatformOS, currentSound, webVars, ambientVars, stopped,
                 storeVars, clientVars, appVars>>

NativeResumeNarration ==
  /\ PlatformOS = "native"
  /\ IF MayResume(currentSound, nativeIsPlaying) /\ nativeSounds[currentSound].loaded
     THEN /\ nativeSounds' = [nativeSounds EXCEPT ![currentSound].playing = TRUE]
          /\ nativeIsPlaying' = TRUE
     ELSE UNCHANGED <<nativeSounds, nativeIsPlaying>>
  /\ narrationCalls' = Touch(narrationCalls, 0)
  /\ audioLast' = [op |-> "resumeNarration", call |-> 0]
  /\ UNCHANGED <<PlatformOS, currentSound, webVars, ambientVars, stopped,
                 storeVars, clientVars, appVars>>

\* setPositionAsync() on an unloaded sound rejects
NativeSeekNarration(positionMillis) ==
  /\ PlatformOS = "native"
  /\ nativeSounds' = IF currentSound # 0 /\ nativeSounds[currentSound].loaded
                     THEN [nativeSounds EXCEPT
                             ![currentSound].positionMillis = positionMillis]
                     ELSE nativeSounds
  /\ narrationCalls' = Touch(narrationCalls, 0)
  /\ audioLast' = [op |-> "seekNarration", call |-> 0]
  /\ UNCHANGED <<PlatformOS, currentSound, nativeIsPlaying, webVars, ambientVars,
                 stopped, storeVars, clientVars, appVars>>

\* setVolumeAsync() on an unloaded sound rejects
NativeSetNarrationVolume(volume) ==
  /\ PlatformOS = "native"
  /\ nativeSounds' = IF currentSound # 0 /\ nativeSounds[currentSound].loaded
                     THEN [nativeSounds EXCEPT ![currentSound].volume = Clamp(volume)]
                     ELSE nativeSounds
  /\ narrationCalls' = Touch(narrationCalls, 0)
  /\ audioLast' = [op |-> "setNarrationVolume", call |-> 0]
  /\ UNCHANGED <<PlatformOS, currentSound, nativeIsPlaying, webVars, ambientVars,
                 stopped, storeVars, clientVars, appVars>>

\* the sound reached the end of its media; the module's isPlaying is not
\* touched by any status callback
NativeFinished(s) ==
  /\ s \in DOMAIN nativeSounds
  /\ nativeSounds[s].playing
  /\ nativeSounds' = [nativeSounds EXCEPT ![s].playing = FALSE]
  /\ audioLast' = [op |-> "finished", call |-> 0]
  /\ UNCHANGED <<PlatformOS, currentSound, nativeIsPlaying, narrationCalls, webVars,
                 ambientVars, stopped, storeVars, clientVars, appVars>>

\* ---- ambientMusic.ts ------------------------------------------------------

DEFAULT_AMBIENT_VOLUME == Hundredths(30)
VolumeInputs == {Hundredths(10), Hundredths(50), Hundredths(150)}
FadeIds == 1 .. MaxFades

IdleAmbientCall ==
  [pc |-> "idle", soundType |-> "none", el |-> 0, volume |-> 0, statuses |-> <<>>,
   hit |-> FALSE, remote |-> FALSE]

IdleFade ==
  [pc |-> "idle", handle |-> 0, start |-> 0, target |-> 0, i |-> 0, before |-> 0,
   clean |-> TRUE]

\* a new ambient element of call c: load() called, oncanplaythrough not yet
\* fired, hasStartedPlaying false
NewAmbientAudio(c, volume) ==
  [playing |-> FALSE, pc |-> "loading", target |-> 0, ok |-> FALSE,
   volume |-> Clamp(volume), call |-> c, started |-> FALSE, errorDue |-> FALSE]

\* onStatusUpdate?.(status) of call c
Report(calls, c, status) == [calls EXCEPT ![c].statuses = Append(@, status)]

\* pause() on element g, with src = '' when clearSrc: it stops, pending
\* play() promises on it reject, and clearing src makes the element fire an
\* error event
AmbientHalted(audios, g, clearSrc) ==
  IF g = 0 THEN audios
  ELSE [e \in DOMAIN audios |->
          LET a == IF e = g
                   THEN [audios[e] EXCEPT
                           !.playing = FALSE,
                           !.errorDue = @ \/ clearSrc]
                   ELSE audios[e]
          IN IF a.pc = "awaitPlay" /\ a.target = g THEN [a EXCEPT !.ok = FALSE] ELSE a]

\* playAmbientMusic up to its first real suspension point: stopAmbientMusic,
\* 'loading', then generateAmbientSound up to the key check, the cache or
\* axios.post
PlayAmbientMusic(c, soundType, volume) ==
  /\ PlatformOS \in Platforms
  /\ NextCall(ambientCalls, c)
  /\ IF PlatformOS # "web"
     THEN /\ ambientCalls' = [ambientCalls EXCEPT
                                ![c] = [IdleAmbientCall EXCEPT
                                          !.pc = "done", !.soundType = soundType,
                                          !.volume = volume]]
          /\ UNCHANGED <<ambientAudio, isAmbientPlaying, ambientAudios, networkCalls,
                         stopped, currentAmbientVolume>>
     ELSE LET g == ambientAudio
              halted == AmbientHalted(ambientAudios, g, TRUE)
              e == Len(ambientAudios) + 1
              hit == soundType \in ambientCache
              call == [IdleAmbientCall EXCEPT
                         !.soundType = soundType, !.volume = volume,
                         !.statuses = <<"loading">>, !.hit = hit]
          IN /\ isAmbientPlaying' = IF g # 0 THEN FALSE ELSE isAmbientPlaying
             /\ stopped' = [stopped EXCEPT !.ambient = FALSE]
             /\ IF KeyMissing(ELEVENLABS_API_KEY)
                THEN /\ ambientCalls' =
                          [ambientCalls EXCEPT
                             ![c] = [call EXCEPT !.pc = "error",
                                                 !.statuses = <<"loading", "error">>]]
                     /\ ambientAudio' = 0
                     /\ ambientAudios' = halted
                     /\ UNCHANGED <<networkCalls, currentAmbientVolume>>
                ELSE IF hit
                THEN /\ ambientCalls' = [ambientCalls EXCEPT
                                           ![c] = [call EXCEPT !.pc = "done", !.el = e]]
                     /\ ambientAudio' = e
                     /\ ambientAudios' = Append(halted, NewAmbientAudio(c, volume))
                     /\ currentAmbientVolume' = volume
                     /\ UNCHANGED networkCalls
                ELSE /\ networkCalls < MaxNetworkCalls
                     /\ networkCalls' = networkCalls + 1
                     /\ ambientCalls' = [ambientCalls EXCEPT
                                           ![c] = [call EXCEPT !.pc = "awaitRemote",
                                                               !.remote = TRUE]]
                     /\ ambientAudio' = 0
                     /\ ambientAudios' = halted
                     /\ UNCHANGED currentAmbientVolume
  /\ UNCHANGED <<PlatformOS, ambientCache, fadeCalls, narrationCalls, webVars, nativeVars,
                 OPENAI_API_KEY, ELEVENLABS_API_KEY, lastCall, audioLast, storeVars,
                 appVars>>

\* axios.post settled: on a response the track is cached and the element is
\* created and assigned to ambientAudio, whatever ambientAudio holds by now
AmbientGenerated(c) ==
  /\ ambientCalls[c].pc = "awaitRemote"
  /\ \E ok \in BOOLEAN :
       IF ok
       THEN /\ ambientCache' = ambientCache \cup {ambientCalls[c].soundType}
            /\ ambientAudios' = Append(ambientAudios,
                                       NewAmbientAudio(c, ambientCalls[c].volume))
            /\ ambientAudio' = Len(ambientAudios) + 1
            /\ currentAmbientVolume' = ambientCalls[c].volume
            /\ ambientCalls' = [ambientCalls EXCEPT
                                  ![c].pc = "done", ![c].el = Len(ambientAudios) + 1]
                 ELSE /\ ambientCalls' = [Report(ambientCalls, c, "error") EXCEPT ![c].pc = "error"]
                      /\ UNCHANGED <<ambientCache, ambientAudios, ambientAudio,
                           currentAmbientVolume>>
  /\ UNCHANGED <<PlatformOS, isAmbientPlaying, fadeCalls, narrationCalls, webVars,
                 nativeVars, stopped, audioLast, storeVars, clientVars, appVars>>

\* oncanplaythrough of element e: play() is called on the element the module
\* variable holds now
AmbientCanPlayThrough(e) ==
  /\ e \in DOMAIN ambientAudios
  /\ ambientAudios[e].pc = "loading"
  /\ ~ambientAudios[e].errorDue
  /\ IF ambientAudio = 0
     THEN ambientAudios' = [ambientAudios EXCEPT ![e].pc = "settled"]
     ELSE \E ok \in BOOLEAN :
            LET g == ambientAudio
                played == IF ok THEN [ambientAudios EXCEPT ![g].playing = TRUE]
                          ELSE ambientAudios
            IN ambientAudios' = [played EXCEPT ![e].pc = "awaitPlay",
                                               ![e].target = g,
                                               ![e].ok = ok]
  /\ UNCHANGED <<PlatformOS, ambientAudio, isAmbientPlaying, ambientCache, ambientCalls,
                 currentAmbientVolume, fadeCalls, narrationCalls, webVars, nativeVars,
                 stopped, audioLast, storeVars, clientVars, appVars>>

\* `await ambientAudio.play()` in oncanplaythrough settled
AmbientPlaySettled(e) ==
  /\ e \in DOMAIN ambientAudios
  /\ ambientAudios[e].pc = "awaitPlay"
  /\ LET ok == ambientAudios[e].ok
     IN /\ isAmbientPlaying' = ok
        /\ ambientAudios' = [ambientAudios EXCEPT ![e].pc = "settled",
                                                  ![e].started = ok]
        /\ ambientCalls' = Report(ambientCalls, ambientAudios[e].call,
                                  IF ok THEN "playing" ELSE "error")
  /\ UNCHANGED <<PlatformOS, ambientAudio, ambientCache, currentAmbientVolume, fadeCalls,
                 narrationCalls, webVars, nativeVars, stopped, audioLast, storeVars, clientVars, appVars>>

\* onerror of element e: its track failed to load, or its src was cleared
AmbientLoadError(e) ==
  /\ e \in DOMAIN ambientAudios
  /\ ambientAudios[e].pc = "loading" \/ ambientAudios[e].errorDue
  /\ LET a == ambientAudios[e]
     IN /\ isAmbientPlaying' = IF a.started THEN isAmbientPlaying ELSE FALSE
        /\ ambientCalls' = IF a.started THEN ambientCalls
                           ELSE Report(ambientCalls, a.call, "error")
        /\ ambientAudios' = [ambientAudios EXCEPT
                               ![e].pc = IF @ = "loading" THEN "dead" ELSE @,
                               ![e].errorDue = FALSE]
  /\ UNCHANGED <<PlatformOS, ambientAudio, ambientCache, currentAmbientVolume, fadeCalls,
                 narrationCalls, webVars, nativeVars, stopped, audioLast, storeVars, clientVars, appVars>>

StopAmbientMusic ==
  /\ PlatformOS \in Platforms
  /\ IF PlatformOS = "web" /\ ambientAudio # 0
     THEN /\ ambientAudios' = AmbientHalted(ambientAudios, ambientAudio, TRUE)
          /\ ambientAudio' = 0
          /\ isAmbientPlaying' = FALSE
     ELSE UNCHANGED <<ambientAudios, ambientAudio, isAmbientPlaying>>
  /\ stopped' = [stopped EXCEPT !.ambient = TRUE]
  /\ UNCHANGED <<PlatformOS, ambientCache, ambientCalls, currentAmbientVolume, fadeCalls,
                 narrationCalls, webVars, nativeVars, audioLast, storeVars, clientVars, appVars>>

PauseAmbientMusic ==
  /\ PlatformOS \in Platforms
  /\ IF PlatformOS = "web" /\ ambientAudio # 0 /\ isAmbientPlaying
     THEN /\ ambientAudios' = AmbientHalted(ambientAudios, ambientAudio, FALSE)
          /\ isAmbientPlaying' = FALSE
     ELSE UNCHANGED <<ambientAudios, isAmbientPlaying>>
  /\ UNCHANGED <<PlatformOS, ambientAudio, ambientCache, ambientCalls,
                 currentAmbientVolume, fadeCalls, narrationCalls, webVars, nativeVars,
                 stopped, audioLast, storeVars, clientVars, appVars>>

ResumeAmbientMusic ==
  /\ PlatformOS \in Platforms
  /\ IF PlatformOS = "web" /\ ambientAudio # 0 /\ ~isAmbientPlaying
     THEN \E ok \in BOOLEAN :
            /\ ambientAudios' = IF ok
                                THEN [ambientAudios EXCEPT ![ambientAudio].playing = TRUE]
                                ELSE ambientAudios
            /\ isAmbientPlaying' = ok
     ELSE UNCHANGED <<ambientAudios, isAmbientPlaying>>
  /\ UNCHANGED <<PlatformOS, ambientAudio, ambientCache, ambientCalls,
                 currentAmbientVolume, fadeCalls, narrationCalls, webVars, nativeVars,
                 stopped, audioLast, storeVars, clientVars, appVars>>

\* every fade other than f has seen another change of the volume since it
\* began; `before`, the volume a fade found at its latest step, is kept for
\* an undisturbed fade only
Disturbed(fades, f) ==
  [x \in FadeIds |->
     IF x # f /\ fades[x].pc \in {"running", "done"}
     THEN [fades[x] EXCEPT !.clean = FALSE, !.before = 0]
     ELSE fades[x]]

SetAmbientVolume(volume) ==
  /\ PlatformOS \in Platforms
  /\ currentAmbientVolume' = Clamp(volume)
  /\ ambientAudios' = IF PlatformOS = "web" /\ ambientAudio # 0
                      THEN [ambientAudios EXCEPT ![ambientAudio].volume = Clamp(volume)]
                      ELSE ambientAudios
  /\ fadeCalls' = Disturbed(fadeCalls, 0)
  /\ UNCHANGED <<PlatformOS, ambientAudio, isAmbientPlaying, ambientCache, ambientCalls,
                 narrationCalls, webVars, nativeVars, stopped, audioLast, storeVars, clientVars, appVars>>

\* fadeAmbientVolume up to the first timer: it returns at once without a
\* handle, else reads the handle's volume
FadeAmbientVolume(f, targetVolume) ==
  /\ PlatformOS \in Platforms
  /\ NextCall(fadeCalls, f)
  /\ fadeCalls' =
       [fadeCalls EXCEPT
          ![f] = IF PlatformOS # "web" \/ ambientAudio = 0
                 THEN [IdleFade EXCEPT !.pc = "returned", !.target = targetVolume]
                 ELSE [pc |-> "running", handle |-> ambientAudio,
                       start |-> ambientAudios[ambientAudio].volume,
                       target |-> targetVolume, i |-> 0,
                       before |-> IF \A x \in FadeIds : fadeCalls[x].pc # "running"
                                  THEN ambientAudios[ambientAudio].volume ELSE 0,
                       clean |-> \A x \in FadeIds : fadeCalls[x].pc # "running"]]
  /\ UNCHANGED <<PlatformOS, ambientAudio, isAmbientPlaying, ambientAudios, ambientCache,
                 ambientCalls, currentAmbientVolume, narrationCalls, webVars, nativeVars,
                 stopped, audioLast, storeVars, clientVars, appVars>>

FadeVolumeAtOnce(startVolume, targetVolume, i) == Clamp(targetVolume)

\* the volume a fade sets at its step i
FadeVolume(startVolume, targetVolume, i) ==
  Clamp(startVolume + ((targetVolume - startVolume) * i) \div Steps)

\* one timer of the loop fired: the volume of the element ambientAudio holds
\* now is set; after the last step currentAmbientVolume = targetVolume
FadeStep(f) ==
  /\ fadeCalls[f].pc = "running"
  /\ LET fade == fadeCalls[f]
         i == fade.i + 1
         g == ambientAudio
     IN /\ ambientAudios' =
             IF g # 0
             THEN [ambientAudios EXCEPT
                     ![g].volume = FadeVolume(fade.start, fade.target, i)]
             ELSE ambientAudios
        /\ fadeCalls' =
             [Disturbed(fadeCalls, f) EXCEPT
                ![f].i = i,
                ![f].before = IF g # 0 /\ fade.clean THEN ambientAudios[g].volume ELSE 0,
                ![f].pc = IF i = Steps THEN "done" ELSE "running"]
        /\ currentAmbientVolume' = IF i = Steps THEN fade.target
                                   ELSE currentAmbientVolume
  /\ UNCHANGED <<PlatformOS, ambientAudio, isAmbientPlaying, ambientCache, ambientCalls,
                 narrationCalls, webVars, nativeVars, stopped, audioLast, storeVars, clientVars, appVars>>

ClearAmbientCache ==
  /\ PlatformOS \in Platforms
  /\ ambientCache' = {}
  /\ UNCHANGED <<PlatformOS, ambientAudio, isAmbientPlaying, ambientAudios, ambientCalls,
                 currentAmbientVolume, fadeCalls, narrationCalls, webVars, nativeVars,
                 stopped, audioLast, storeVars, clientVars, appVars>>

\* ---- App.tsx and SettingsScreen.tsx: the API keys --------------------------

\* the three key fields of the settings screen
ScreenKeyInputs ==
  KeyInputs \cup {EMPTY_KEYS, [openai |-> "sk", elevenlabs |-> "el", gemini |-> "gm"]}

\* the key variables of the three client modules
MemoryKeys ==
  [openai |-> OPENAI_API_KEY, elevenlabs |-> ELEVENLABS_API_KEY, gemini |-> GEMINI_API_KEY]

NoAppOp ==
  [op |-> "none", ok |-> TRUE, rfail |-> FALSE, preKeys |-> EMPTY_KEYS, id |-> "", uri |-> ""]

\* App.tsx prepare(): getAPIKeys, then the OpenAI and ElevenLabs keys are
\* set when they are not empty
Prepare ==
  \E rfail \in BOOLEAN :
    LET apiKeys == GetAPIKeysOf(storage[STORAGE_KEYS.API_KEYS], rfail)
    IN /\ ~appIsReady
       /\ OPENAI_API_KEY' = IF apiKeys.openai # "" THEN apiKeys.openai ELSE OPENAI_API_KEY
       /\ ELEVENLABS_API_KEY' =
            IF apiKeys.elevenlabs # "" THEN apiKeys.elevenlabs ELSE ELEVENLABS_API_KEY
       /\ appIsReady' = TRUE
       /\ appLast' = [NoAppOp EXCEPT !.op = "prepare", !.rfail = rfail, !.preKeys = MemoryKeys]
       /\ UNCHANGED <<GEMINI_API_KEY, storyResult, imageVars, storyOps, reader, networkCalls, lastCall, storeVars, audioVars>>

\* SettingsScreen loadSettings(): the three keys are set from getAPIKeys
LoadSettings ==
  \E rfail \in BOOLEAN :
    LET apiKeys == GetAPIKeysOf(storage[STORAGE_KEYS.API_KEYS], rfail)
    IN /\ appIsReady
       /\ OPENAI_API_KEY' = apiKeys.openai
       /\ ELEVENLABS_API_KEY' = apiKeys.elevenlabs
       /\ GEMINI_API_KEY' = apiKeys.gemini
       /\ appLast' = [NoAppOp EXCEPT !.op = "loadSettings", !.rfail = rfail,
                                     !.preKeys = MemoryKeys]
       /\ UNCHANGED <<appIsReady, storyResult, imageVars, storyOps, reader, networkCalls, lastCall, storeVars, audioVars>>

\* SettingsScreen handleSaveAPIKeys(): saveAPIKeys, then the three setters;
\* a rejected save is caught before the setters run
HandleSaveAPIKeys ==
  \E keys \in ScreenKeyInputs, wfail \in BOOLEAN :
    /\ appIsReady
    /\ SetItem(STORAGE_KEYS.API_KEYS, keys, wfail)
    /\ last' = [Op("saveAPIKeys") EXCEPT !.arg = keys, !.wfail = wfail,
                  !.threw = Rethrown(wfail), !.preRec = APIKeys]
    /\ OPENAI_API_KEY' = IF wfail THEN OPENAI_API_KEY ELSE keys.openai
    /\ ELEVENLABS_API_KEY' = IF wfail THEN ELEVENLABS_API_KEY ELSE keys.elevenlabs
    /\ GEMINI_API_KEY' = IF wfail THEN GEMINI_API_KEY ELSE keys.gemini
    /\ appLast' = [NoAppOp EXCEPT !.op = "saveAPIKeys", !.ok = ~wfail, !.preKeys = MemoryKeys]
    /\ UNCHANGED <<CHARACTERS, appIsReady, storyResult, imageVars, storyOps, reader, networkCalls, lastCall, audioVars>>

\* the process ends and the app is launched again: the module variables are
\* initialised anew, the stored records stay.  It is used where the key
\* variables are the only module state that has changed.
RestartApp ==
  /\ appIsReady
  /\ OPENAI_API_KEY' = ""
  /\ ELEVENLABS_API_KEY' = ""
  /\ GEMINI_API_KEY' = ""
  /\ appIsReady' = FALSE
  /\ appLast' = [NoAppOp EXCEPT !.op = "restart", !.preKeys = MemoryKeys]
  /\ UNCHANGED <<storyResult, imageVars, storyOps, reader, networkCalls, lastCall, storeVars, audioVars>>

\* ---- StoryReaderScreen.tsx: narration for the story on the screen ----------

\* handleGenerateNarration(): without an ElevenLabs key the handler reports
\* and returns; otherwise one generateNarration call, and on success the
\* screen's audioUrl state is set and playback of it is started.  The story
\* on the screen is the route parameter, one of the persisted stories.
\* Playback is the narration controller's playNarration, which writes no
\* record.
HandleGenerateNarration ==
  \E i \in DOMAIN Stories, uri \in AudioUrls :
    /\ Generate("generateNarration", ELEVENLABS_API_KEY,
                "Please configure your ElevenLabs API key in Settings to enable voice narration.",
                "Failed to generate narration")
    /\ appLast' = [NoAppOp EXCEPT !.op = "handleGenerateNarration",
                                  !.ok = lastCall'.success,
                                  !.id = Stories[i].id,
                                  !.uri = IF lastCall'.success THEN uri ELSE ""]
    /\ UNCHANGED <<OPENAI_API_KEY, ELEVENLABS_API_KEY, GEMINI_API_KEY, appIsReady,
                   storyResult, imageVars, storyOps, reader, storeVars, audioVars>>

\* ---- StoryReaderScreen.tsx: narration and ambient music on the screen -----
\* The handlers of the web build, each run to its end: every call of a
\* controller that a handler awaits has settled when the next handler runs.

\* the volume slider of the settings screen
MusicVolumeUpdates == {[backgroundMusicVolume |-> 50], [backgroundMusicVolume |-> 100]}

SaveMusicVolume ==
  \E settings \in MusicVolumeUpdates, fault \in Faults : saveSettings(settings, fault)

DUCKED_VOLUME == Hundredths(10)
RESTORED_VOLUME == Hundredths(30)

\* isPlaying, audioUrl and isAmbientPlaying of the component; ambientAtPlay is
\* the isAmbientPlaying the status callback of playNarration closed over;
\* level is the volume the ambient handle had before it was lowered, op the
\* handler that ran last
NoReader ==
  [isPlaying |-> FALSE, audioUrl |-> FALSE, isAmbientPlaying |-> FALSE,
   ambientAtPlay |-> FALSE, level |-> 0, lowered |-> FALSE, op |-> "none"]

\* fadeAmbientVolume run to its last step on handle g
FadedTo(audios, g, targetVolume) ==
  IF g = 0 THEN audios
  ELSE [audios EXCEPT ![g].volume = FadeVolume(@, targetVolume, Steps)]

\* `if (isAmbientPlaying) await fadeAmbientVolume(target, ...)`
ReaderFade(targetVolume) ==
  IF reader.isAmbientPlaying /\ ambientAudio # 0
  THEN /\ ambientAudios' = FadedTo(ambientAudios, ambientAudio, targetVolume)
       /\ currentAmbientVolume' = targetVolume
  ELSE UNCHANGED <<ambientAudios, currentAmbientVolume>>

\* the level to come back to is noted when the volume is lowered
LevelAtLowering ==
  IF reader.isAmbientPlaying /\ ambientAudio # 0 /\ ~reader.lowered
  THEN ambientAudios[ambientAudio].volume ELSE reader.level

\* handleToggleAmbient: pauseAmbientMusic when the music plays, else
\* getSettings and playAmbientMusic, whose status callback sets the flags
HandleToggleAmbient ==
  /\ PlatformOS = "web"
  /\ IF reader.isAmbientPlaying
     THEN /\ IF ambientAudio # 0 /\ isAmbientPlaying
             THEN /\ ambientAudios' = AmbientHalted(ambientAudios, ambientAudio, FALSE)
                  /\ isAmbientPlaying' = FALSE
             ELSE UNCHANGED <<ambientAudios, isAmbientPlaying>>
          /\ reader' = [reader EXCEPT !.isAmbientPlaying = FALSE, !.op = "ambientOff"]
          /\ UNCHANGED <<ambientAudio, currentAmbientVolume, stopped>>
     ELSE \E ok \in BOOLEAN, rfail \in BOOLEAN :
            LET settings == GetSettingsOf(storage[STORAGE_KEYS.SETTINGS], rfail)
                configured == Hundredths(settings.backgroundMusicVolume)
                volume == IF reader.isPlaying THEN DUCKED_VOLUME ELSE configured
                halted == AmbientHalted(ambientAudios, ambientAudio, TRUE)
                element == [NewAmbientAudio(0, volume) EXCEPT
                              !.playing = TRUE, !.pc = "settled", !.ok = TRUE,
                              !.started = TRUE]
            IN /\ Len(ambientAudios) < MaxCalls
               /\ stopped' = [stopped EXCEPT !.ambient = FALSE]
               /\ IF ok
                  THEN /\ ambientAudios' = Append(halted, element)
                       /\ ambientAudio' = Len(ambientAudios) + 1
                       /\ isAmbientPlaying' = TRUE
                       /\ currentAmbientVolume' = volume
                       /\ reader' = [reader EXCEPT !.isAmbientPlaying = TRUE,
                                                   !.level = Clamp(configured),
                                                   !.lowered = reader.isPlaying,
                                                   !.op = "ambientOn"]
                  ELSE /\ ambientAudios' = halted
                       /\ ambientAudio' = 0
                       /\ isAmbientPlaying' = FALSE
                       /\ reader' = [reader EXCEPT !.op = "ambientFailed"]
                       /\ UNCHANGED currentAmbientVolume
  /\ UNCHANGED <<PlatformOS, ambientCache, ambientCalls, fadeCalls, narrationCalls,
                 webVars, nativeVars, audioLast, storeVars, clientVars,
                 GEMINI_API_KEY, appIsReady, appLast, storyResult, imageVars, storyOps>>

\* handleTogglePlayback without an audioUrl: handleGenerateNarration and,
\* when narration was generated, handlePlayNarration: the ambient volume is
\* lowered, then playNarration starts the narration or throws
HandlePlayNarration ==
  /\ PlatformOS = "web"
  /\ ~reader.audioUrl
  /\ Len(webAudios) < MaxCalls
  /\ \E ok \in BOOLEAN :
       LET g == webAudioElement
           element == [NewAudio EXCEPT !.playing = ok, !.onended = TRUE]
       IN /\ ReaderFade(DUCKED_VOLUME)
          /\ webAudios' = Append(Rewound(Paused(webAudios, g), g), element)
          /\ webAudioElement' = Len(webAudios) + 1
          /\ webIsPlaying' = ok
          /\ stopped' = [stopped EXCEPT !.narration = FALSE]
          /\ reader' = [reader EXCEPT !.audioUrl = TRUE,
                                      !.isPlaying = IF ok THEN TRUE ELSE @,
                                      !.ambientAtPlay = reader.isAmbientPlaying,
                                      !.level = LevelAtLowering,
                                      !.lowered = reader.isAmbientPlaying /\ ambientAudio # 0,
                                      !.op = IF ok THEN "play" ELSE "playFailed"]
  /\ UNCHANGED <<PlatformOS, ambientAudio, isAmbientPlaying, ambientCache, ambientCalls,
                 fadeCalls, narrationCalls, nativeVars, audioLast, storeVars, clientVars,
                 GEMINI_API_KEY, appIsReady, appLast, storyResult, imageVars, storyOps>>

\* handleTogglePlayback with an audioUrl: pauseNarration and the volume is
\* brought back, or the volume is lowered and resumeNarration
HandleTogglePlayback ==
  /\ PlatformOS = "web"
  /\ reader.audioUrl
  /\ IF reader.isPlaying
     THEN /\ IF webAudioElement # 0 /\ webIsPlaying
             THEN /\ webAudios' = Paused(webAudios, webAudioElement)
                  /\ webIsPlaying' = FALSE
             ELSE UNCHANGED <<webAudios, webIsPlaying>>
          /\ ReaderFade(RESTORED_VOLUME)
          /\ reader' = [reader EXCEPT !.isPlaying = FALSE, !.lowered = FALSE,
                                      !.op = "pause"]
     ELSE /\ ReaderFade(DUCKED_VOLUME)
          /\ IF MayResume(webAudioElement, webIsPlaying)
             THEN \E ok \in BOOLEAN :
                    /\ webAudios' = [webAudios EXCEPT
                                       ![webAudioElement].playing = IF ok THEN TRUE ELSE @]
                    /\ webIsPlaying' = ok
             ELSE UNCHANGED <<webAudios, webIsPlaying>>
          /\ reader' = [reader EXCEPT !.isPlaying = TRUE,
                                      !.level = LevelAtLowering,
                                      !.lowered = reader.isAmbientPlaying /\ ambientAudio # 0,
                                      !.op = "resume"]
  /\ UNCHANGED <<PlatformOS, webAudioElement, ambientAudio, isAmbientPlaying, ambientCache,
                 ambientCalls, fadeCalls, narrationCalls, nativeVars, stopped, audioLast,
                 storeVars, clientVars,
                 GEMINI_API_KEY, appIsReady, appLast, storyResult, imageVars, storyOps>>

\* the narration ended: onended of the element, then the status callback with
\* didJustFinish, which brings the volume back when the music played at the
\* time handlePlayNarration ran
ReaderNarrationFinished ==
  /\ PlatformOS = "web"
  /\ webAudioElement # 0
  /\ webAudios[webAudioElement].playing
  /\ webAudios' = [webAudios EXCEPT ![webAudioElement].playing = FALSE]
  /\ webIsPlaying' = FALSE
  /\ IF reader.ambientAtPlay /\ ambientAudio # 0
     THEN /\ ambientAudios' = FadedTo(ambientAudios, ambientAudio, RESTORED_VOLUME)
          /\ currentAmbientVolume' = RESTORED_VOLUME
     ELSE UNCHANGED <<ambientAudios, currentAmbientVolume>>
  /\ reader' = [reader EXCEPT !.isPlaying = FALSE,
                              !.lowered = IF reader.ambientAtPlay /\ ambientAudio # 0
                                          THEN FALSE ELSE @,
                              !.op = "finished"]
  /\ UNCHANGED <<PlatformOS, webAudioElement, ambientAudio, isAmbientPlaying, ambientCache,
                 ambientCalls, fadeCalls, narrationCalls, nativeVars, stopped, audioLast,
                 storeVars, clientVars,
                 GEMINI_API_KEY, appIsReady, appLast, storyResult, imageVars, storyOps>>

----------------------------------------------------------------------------
Init ==
  /\ storage = [k \in StorageKeySet |-> NullItem]
  /\ CHARACTERS = BUILTIN_CHARACTERS
  /\ last = NoOp
  /\ OPENAI_API_KEY = ""
  /\ ELEVENLABS_API_KEY = ""
  /\ networkCalls = 0
  /\ lastCall = NoCall
  /\ PlatformOS = "unset"
  /\ narrationCalls = [c \in CallIds |-> IdleCall]
  /\ webAudioElement = 0
  /\ webIsPlaying = FALSE
  /\ webAudios = <<>>
  /\ currentSound = 0
  /\ nativeIsPlaying = FALSE
  /\ nativeSounds = <<>>
  /\ ambientAudio = 0
  /\ isAmbientPlaying = FALSE
  /\ ambientAudios = <<>>
  /\ ambientCache = {}
  /\ ambientCalls = [c \in CallIds |-> IdleAmbientCall]
  /\ currentAmbientVolume = DEFAULT_AMBIENT_VOLUME
  /\ fadeCalls = [f \in FadeIds |-> IdleFade]
  /\ stopped = [narration |-> FALSE, ambient |-> FALSE]
  /\ audioLast = NoAudioOp
  /\ GEMINI_API_KEY = ""
  /\ appIsReady = FALSE
  /\ appLast = NoAppOp
  /\ storyResult = NoStoryResult
  /\ imageCache = [provider \in Providers |-> [id \in ImageIds |-> ""]]
  /\ imageCall = NoImageCall
  /\ reader = NoReader
  /\ storyOps = [w \in Writers |-> NoStoryOp]

\* the story list on its own
NextStories ==
  \/ SaveStory
  \/ GetStories
  \/ GetStoryById
  \/ UpdateStory
  \/ DeleteStory
  \/ ToggleFavorite

SpecStories == Init /\ [][NextStories]_vars

\* the story operations that write
NextStoryWrites ==
  \/ SaveStory
  \/ UpdateStory
  \/ DeleteStory
  \/ ToggleFavorite

SpecStoryWrites == Init /\ [][NextStoryWrites]_vars

\* the story operations, with updateStory given any fields of a story
NextStoryFields ==
  \/ SaveStory
  \/ UpdateStoryFields
  \/ DeleteStory
  \/ ToggleFavorite

SpecStoryFields == Init /\ [][NextStoryFields]_vars

\* every operation of the store, one record kind at a time: an operation on
\* a key runs while the other JSON records are still missing
OnlyKey(key) == \A k \in JsonKeys \ {key} : storage[k].kind = "null"

NextStore ==
  \/ OnlyKey(STORAGE_KEYS.STORIES) /\ SaveStory
  \/ OnlyKey(STORAGE_KEYS.STORIES) /\ GetStories
  \/ OnlyKey(STORAGE_KEYS.STORIES) /\ GetStoryById
  \/ OnlyKey(STORAGE_KEYS.STORIES) /\ UpdateStory
  \/ OnlyKey(STORAGE_KEYS.STORIES) /\ DeleteStory
  \/ OnlyKey(STORAGE_KEYS.STORIES) /\ ToggleFavorite
  \/ OnlyKey(STORAGE_KEYS.API_KEYS) /\ SaveAPIKeys
  \/ OnlyKey(STORAGE_KEYS.API_KEYS) /\ GetAPIKeys
  \/ OnlyKey(STORAGE_KEYS.SETTINGS) /\ SaveSettings
  \/ OnlyKey(STORAGE_KEYS.SETTINGS) /\ GetSettings
  \/ OnlyKey(STORAGE_KEYS.CUSTOM_CHARACTERS) /\ SaveCustomCharacter
  \/ OnlyKey(STORAGE_KEYS.CUSTOM_CHARACTERS) /\ GetCustomCharacters
  \/ OnlyKey(STORAGE_KEYS.CUSTOM_CHARACTERS) /\ UpdateCustomCharacter
  \/ OnlyKey(STORAGE_KEYS.CUSTOM_CHARACTERS) /\ DeleteCustomCharacter
  \/ ClearAllData
  \/ CorruptRecord

SpecStore == Init /\ [][NextStore]_vars

\* populating every record kind, then clearing
NextClear ==
  \/ SaveStory
  \/ SaveCustomCharacter
  \/ SaveSettings
  \/ SaveAPIKeys
  \/ GetStories
  \/ GetCustomCharacters
  \/ GetSettings
  \/ GetAPIKeys
  \/ ClearAllData

SpecClear == Init /\ [][NextClear]_vars

\* the two generate calls and the key setters
NextClients ==
  \/ SetOpenAIKey
  \/ SetElevenLabsKey
  \/ GenerateStory
  \/ GenerateNarration

SpecClients == Init /\ [][NextClients]_vars

\* the API keys between the store, the screens and the client modules
NextKeys ==
  \/ Prepare
  \/ LoadSettings
  \/ HandleSaveAPIKeys
  \/ RestartApp

SpecKeys == Init /\ [][NextKeys]_vars

\* story generation with the provider's answers
NextParse ==
  \/ SetOpenAIKey
  \/ GenerateStoryRequest
  \/ GenerateStoryParsed

SpecParse == Init /\ [][NextParse]_vars

\* the settings record with whole and partial updates
NextSettings ==
  \/ SaveSettings
  \/ SaveVoiceSettings
  \/ GetSettings

SpecSettings == Init /\ [][NextSettings]_vars

\* the image clients
NextImages ==
  \/ SetOpenAIKey
  \/ SetGeminiKey
  \/ GenerateCharacterImage
  \/ ImageAnswered
  \/ ClearImageCache

SpecImages == Init /\ [][NextImages]_vars

\* every client that calls a provider
NextRemote ==
  \/ SetOpenAIKey
  \/ SetElevenLabsKey
  \/ SetGeminiKey
  \/ GenerateStory
  \/ GenerateNarration
  \/ GenerateCharacterImage
  \/ ImageAnswered

SpecRemote == Init /\ [][NextRemote]_vars

\* narration and ambient music on the reader screen
NextDucking ==
  \/ StartApp
  \/ SaveMusicVolume
  \/ HandleToggleAmbient
  \/ HandlePlayNarration
  \/ HandleTogglePlayback
  \/ ReaderNarrationFinished

SpecDucking == Init /\ [][NextDucking]_vars

\* two story writes at a time, after stories were saved one by one
NextStoryOps ==
  \/ (NoStoryOpBegun /\ SaveStory)
  \/ \E w \in Writers : StoryOpRead(w)
  \/ \E w \in Writers : StoryOpWrite(w)

SpecStoryOps == Init /\ [][NextStoryOps]_vars

\* the reader screen over the stored stories
NextReader ==
  \/ SaveStory
  \/ GetStoryById
  \/ SetElevenLabsKey
  \/ HandleGenerateNarration

SpecReader == Init /\ [][NextReader]_vars

\* narration on either build
NextNarration ==
  \/ StartApp
  \/ \E c \in CallIds : WebPlayNarration(c)
  \/ \E c \in CallIds : WebPlayLoaded(c)
  \/ \E c \in CallIds : WebPlayLoadError(c)
  \/ \E c \in CallIds : WebPlaySettled(c)
  \/ WebPauseNarration
  \/ WebResumeNarration
  \/ WebStopNarration
  \/ \E e \in 1 .. MaxCalls : WebEnded(e)
  \/ \E c \in CallIds : NativePlayNarration(c)
  \/ \E c \in CallIds : NativeStopNarration(c)
  \/ \E c \in CallIds : NativeStopped(c)
  \/ \E c \in CallIds : NativeUnloaded(c)
  \/ \E c \in CallIds : NativeCreated(c)
  \/ NativePauseNarration
  \/ NativeResumeNarration
  \/ \E s \in 1 .. MaxCalls : NativeFinished(s)

SpecNarration == Init /\ [][NextNarration]_vars

\* the narration controller with its position and volume controls:
\* playNarration and stopNarration are called one at a time here; the other
\* controls may be called at any moment
NoCallInFlight == \A c \in CallIds : ~InFlight(narrationCalls[c])

NextControls ==
  \/ StartApp
  \/ NoCallInFlight /\ \E c \in CallIds : WebPlayNarration(c)
  \/ \E c \in CallIds : WebPlayLoaded(c)
  \/ \E c \in CallIds : WebPlayLoadError(c)
  \/ \E c \in CallIds : WebPlaySettled(c)
  \/ WebPauseNarration
  \/ WebResumeNarration
  \/ WebStopNarration
  \/ \E e \in 1 .. MaxCalls : WebEnded(e)
  \/ NoCallInFlight /\ \E c \in CallIds : NativePlayNarration(c)
  \/ NoCallInFlight /\ \E c \in CallIds : NativeStopNarration(c)
  \/ \E c \in CallIds : NativeStopped(c)
  \/ \E c \in CallIds : NativeUnloaded(c)
  \/ \E c \in CallIds : NativeCreated(c)
  \/ NativePauseNarration
  \/ NativeResumeNarration
  \/ \E s \in 1 .. MaxCalls : NativeFinished(s)
  \/ \E p \in SeekInputs : WebSeekNarration(p)
  \/ \E v \in NarrationVolumeInputs : WebSetNarrationVolume(v)
  \/ \E p \in SeekInputs : NativeSeekNarration(p)
  \/ \E v \in NarrationVolumeInputs : NativeSetNarrationVolume(v)

SpecControls == Init /\ [][NextControls]_vars

\* the controllers whose operations suspend: native narration and ambient
NextAudio ==
  \/ StartApp
  \/ SetElevenLabsKey
  \/ \E c \in CallIds : NativePlayNarration(c)
  \/ \E c \in CallIds : NativeStopNarration(c)
  \/ \E c \in CallIds : NativeStopped(c)
  \/ \E c \in CallIds : NativeUnloaded(c)
  \/ \E c \in CallIds : NativeCreated(c)
  \/ NativePauseNarration
  \/ NativeResumeNarration
  \/ \E s \in 1 .. MaxCalls : NativeFinished(s)
  \/ \E c \in CallIds, t \in SoundTypes : PlayAmbientMusic(c, t, DEFAULT_AMBIENT_VOLUME)
  \/ \E c \in CallIds : AmbientGenerated(c)
  \/ \E e \in 1 .. MaxCalls : AmbientCanPlayThrough(e)
  \/ \E e \in 1 .. MaxCalls : AmbientPlaySettled(e)
  \/ \E e \in 1 .. MaxCalls : AmbientLoadError(e)
  \/ StopAmbientMusic
  \/ PauseAmbientMusic
  \/ ResumeAmbientMusic

SpecAudio == Init /\ [][NextAudio]_vars

\* the ambient volume: fades on one ambient handle
NoAmbientHandle ==
  ambientAudio = 0 /\ \A c \in CallIds : ambientCalls[c].pc # "awaitRemote"

NextFade ==
  \/ StartApp
  \/ SetElevenLabsKey
  \/ /\ NoAmbientHandle
     /\ \E c \in CallIds : PlayAmbientMusic(c, "moonlit_wind", DEFAULT_AMBIENT_VOLUME)
  \/ \E c \in CallIds : AmbientGenerated(c)
  \/ SetAmbientVolume(DEFAULT_AMBIENT_VOLUME)
  \/ \E f \in FadeIds, v \in VolumeInputs : FadeAmbientVolume(f, v)
  \/ \E f \in FadeIds : FadeStep(f)

SpecFade == Init /\ [][NextFade]_vars

\* the ambient controller of the web build with its track cache
NextAmbient ==
  \/ StartApp
  \/ SetElevenLabsKey
  \/ \E c \in CallIds, t \in SoundTypes : PlayAmbientMusic(c, t, DEFAULT_AMBIENT_VOLUME)
  \/ \E c \in CallIds : AmbientGenerated(c)
  \/ \E e \in 1 .. MaxCalls : AmbientCanPlayThrough(e)
  \/ \E e \in 1 .. MaxCalls : AmbientPlaySettled(e)
  \/ \E e \in 1 .. MaxCalls : AmbientLoadError(e)
  \/ StopAmbientMusic
  \/ ClearAmbientCache

SpecAmbient == Init /\ [][NextAmbient]_vars

\* the event loop delivers every settled promise and every due media event:
\* the request of generateAmbientSound settles, a pending play() settles, and
\* an element that is loading fires canplaythrough or error
AmbientFairness ==
  /\ \A c \in CallIds : WF_vars(AmbientGenerated(c))
  /\ \A e \in 1 .. MaxCalls :
       /\ WF_vars(AmbientPlaySettled(e))
       /\ WF_vars(AmbientCanPlayThrough(e) \/ AmbientLoadError(e))

SpecAmbientFair == SpecAmbient /\ AmbientFairness

----------------------------------------------------------------------------
(* Claims about the persistence store.  "Fault-free" below means that no   *)
(* storage call of the operation was made to fail.                         *)

FaultFree == ~last.rfail /\ ~last.wfail

Occurrences(list, id) == Cardinality({i \in DOMAIN list : list[i].id = id})

\* what a list is after being written by setItem and read back by getStories
Reread(list) == GetStoriesOf(JsonItem(StringifyStories(list)), FALSE)

\* the story list as toggleFavorite(id) leaves it
Toggled(list, id) ==
  IF FindIndex(list, id) = 0 THEN list ELSE Reread(FlipFavorite(list, FindIndex(list, id)))

\* C1: after a fault-free saveStory(story), getStories returns the saved story
\* at index 0 followed by the stories it returned before, in the same order.
C1_SaveIsMostRecentFirst ==
  (last.op = "saveStory" /\ FaultFree)
    => /\ Len(Stories) = Len(last.preList) + 1
       /\ Stories[1] = ReviveStory(last.arg)
       /\ \A i \in DOMAIN last.preList : Stories[i + 1] = last.preList[i]

C1_Witness ==
  /\ last.op = "saveStory" /\ FaultFree
  /\ Len(last.preList) >= 2
  /\ last.preList[1] # last.preList[2]

\* C2 (as stated): after a fault-free deleteStory(id), getStoryById(id) is
\* null and the list is one shorter; for an id not in the store the list is
\* unchanged and nothing is thrown.
C2_DeleteRemovesExactlyOne ==
  (last.op = "deleteStory" /\ FaultFree)
    => /\ FindIndex(Stories, last.id) = 0
       /\ ~last.threw
       /\ IF FindIndex(last.preList, last.id) # 0
          THEN Len(Stories) = Len(last.preList) - 1
          ELSE Stories = last.preList

\* C3: a fault-free toggleFavorite(id) of a stored id returns and persists
\* the negation of the story's isFavorite and changes nothing else; a second
\* call restores the list and a third gives the flipped list again.
C3_ToggleIsFlip ==
  (last.op = "toggleFavorite" /\ FaultFree /\ FindIndex(last.preList, last.id) # 0)
    => LET i == FindIndex(last.preList, last.id)
       IN /\ last.retBool = ~last.preList[i].isFavorite
          /\ Len(Stories) = Len(last.preList)
          /\ \A j \in DOMAIN Stories :
               \A f \in DOMAIN Stories[j] :
                 Stories[j][f] = IF j = i /\ f = "isFavorite"
                                 THEN ~last.preList[j][f] ELSE last.preList[j][f]
          /\ \A j \in DOMAIN Stories : DOMAIN Stories[j] = DOMAIN last.preList[j]
          /\ Toggled(Stories, last.id) = last.preList
          /\ Toggled(Toggled(Stories, last.id), last.id) = Stories

C3_Witness ==
  /\ last.op = "toggleFavorite" /\ FaultFree
  /\ FindIndex(last.preList, last.id) # 0
  /\ last.preList[FindIndex(last.preList, last.id)].isFavorite
  /\ Len(Stories) >= 2

\* C4: getSettings on an empty store returns DEFAULT_SETTINGS, and after a
\* fault-free saveSettings(p) getSettings returns what it returned before
\* except for the fields of p.
C4_SettingsMerge ==
  /\ (last.op = "getSettings" /\ ~last.rfail /\ storage[STORAGE_KEYS.SETTINGS].kind = "null")
       => last.retRec = DEFAULT_SETTINGS
  /\ (last.op = "saveSettings" /\ FaultFree)
       => /\ DOMAIN Settings = DOMAIN last.preRec
          /\ \A f \in DOMAIN Settings :
               Settings[f] = IF f \in DOMAIN last.arg THEN last.arg[f] ELSE last.preRec[f]

C4_Witness ==
  /\ last.op = "saveSettings" /\ FaultFree
  /\ \E f \in DOMAIN last.preRec : f \notin DOMAIN last.arg /\ last.preRec[f] # DEFAULT_SETTINGS[f]

ReadOps == {"getStories", "getStoryById", "getCustomCharacters", "getAPIKeys", "getSettings"}
WriteOps ==
  {"saveStory", "updateStory", "deleteStory", "toggleFavorite", "saveAPIKeys", "saveSettings",
   "saveCustomCharacter", "updateCustomCharacter", "deleteCustomCharacter"}

ReadKey(op) ==
  CASE op \in {"getStories", "getStoryById"} -> STORAGE_KEYS.STORIES
    [] op = "getCustomCharacters" -> STORAGE_KEYS.CUSTOM_CHARACTERS
    [] op = "getAPIKeys" -> STORAGE_KEYS.API_KEYS
    [] op = "getSettings" -> STORAGE_KEYS.SETTINGS

ReturnedDefault ==
  CASE last.op \in {"getStories", "getCustomCharacters"} -> last.retList = <<>>
    [] last.op = "getStoryById" -> ~last.retBool /\ last.retRec = EmptyRec
    [] last.op = "getAPIKeys" -> last.retRec = EMPTY_KEYS
    [] last.op = "getSettings" -> last.retRec = DEFAULT_SETTINGS

\* C9: a read never throws and returns the empty/default value when its
\* record is missing, corrupt or unreadable; a write whose setItem rejects
\* rethrows to its caller.
C9_FailureSemantics ==
  /\ last.op \in ReadOps
       => /\ ~last.threw
          /\ (last.rfail \/ storage[ReadKey(last.op)].kind # "json") => ReturnedDefault
  /\ (last.op \in WriteOps /\ last.wfail) => last.threw

C9_Witness ==
  /\ last.op = "updateStory" /\ last.wfail /\ last.threw
  /\ Len(Stories) >= 1

\* C10: after clearAllData, getStories and getCustomCharacters return empty
\* lists, getSettings returns DEFAULT_SETTINGS, and the built-in characters
\* are what they were.
C10_ClearAll ==
  (last.op = "clearAllData" /\ ~last.threw)
    => /\ Stories = <<>>
       /\ CustomCharacters = <<>>
       /\ Settings = DEFAULT_SETTINGS
       /\ CHARACTERS = BUILTIN_CHARACTERS

C10_Witness ==
  /\ last.op = "clearAllData" /\ ~last.threw
  /\ {STORAGE_KEYS.STORIES, STORAGE_KEYS.CUSTOM_CHARACTERS, STORAGE_KEYS.SETTINGS}
       \subseteq last.preKeys

----------------------------------------------------------------------------
(* Claims about the audio controllers and the remote clients.              *)

WebPlayingSet == {e \in DOMAIN webAudios : webAudios[e].playing}

NativePlayingSet == {s \in DOMAIN nativeSounds : nativeSounds[s].playing}

AmbientPlayingSet == {e \in DOMAIN ambientAudios : ambientAudios[e].playing}

\* the narration that can be heard, on whichever build runs
NarrationPlayingSet == IF PlatformOS = "web" THEN WebPlayingSet ELSE NativePlayingSet

\* a playNarration call has just completed and no other narration operation
\* ran between its start and its completion
PlayedAlone ==
  /\ audioLast.op = "playDone"
  /\ narrationCalls[audioLast.call].alone

\* no narration call so far ran while another was suspended
Sequential == \A c \in CallIds : narrationCalls[c].alone

\* handle h is no longer held by the controller; a native sound is unloaded
Released(h) ==
  \/ h = 0
  \/ /\ h # CurrentHandle
     /\ PlatformOS = "native" => ~nativeSounds[h].loaded

\* C5: when playNarration(B) is called after playNarration(A) has completed,
\* with no overlapping call, then once B completes B is the current handle
\* and plays, isNarrationPlaying() agrees with it, and A, the handle B
\* found, is halted and released.  When no call so far overlapped another,
\* B is the only narration that plays.
C5_SequentialPlayIsExclusive ==
  PlayedAlone =>
    LET B == narrationCalls[audioLast.call]
    IN /\ CurrentHandle = B.el
       /\ B.el \in NarrationPlayingSet
       /\ IsNarrationPlaying = (B.el \in NarrationPlayingSet)
       /\ B.prev \notin NarrationPlayingSet
       /\ Released(B.prev)
       /\ Sequential => NarrationPlayingSet = {B.el}

\* B completed alone after A had completed, and A was playing when B was called
C5_Witness ==
  /\ PlayedAlone
  /\ audioLast.call = 2
  /\ narrationCalls[2].cut
  /\ narrationCalls[1].kind = "play"
  /\ narrationCalls[1].pc = "done"
  /\ narrationCalls[2].prev = narrationCalls[1].el
  /\ Sequential

\* C6: under any interleaving of play and stop calls, every audio object a
\* controller created is either its current handle or is not playing.
C6_AtMostOneActive ==
  /\ \A s \in NativePlayingSet : s = currentSound
  /\ \A e \in AmbientPlayingSet : e = ambientAudio

\* C7: once stop has returned, and until play is called again, nothing of
\* that controller plays, whether or not a play call was in flight.
C7_StopIsFinal ==
  /\ stopped.narration => NativePlayingSet = {}
  /\ stopped.ambient => AmbientPlayingSet = {}

\* C8: generateStory and generateNarration called while their key is empty
\* return success = false with a non-empty error, do not throw, and make no
\* network call.
C8_MissingKeyIsConfigurationError ==
  (lastCall.op \in {"generateStory", "generateNarration"} /\ lastCall.key = "") =>
    /\ ~lastCall.success
    /\ lastCall.error # ""
    /\ ~lastCall.threw
    /\ networkCalls = lastCall.netBefore

\* generateNarration found no key after earlier calls had reached the network
C8_Witness ==
  /\ lastCall.op = "generateNarration"
  /\ lastCall.key = ""
  /\ lastCall.netBefore > 0
  /\ OPENAI_API_KEY # ""

----------------------------------------------------------------------------
(* Further claims about the persistence store.                             *)

\* C11: after clearAllData the stories list, the custom-characters list, the
\* settings object and the API-keys object are all removed: getAPIKeys
\* returns an empty string for every provider, besides the three other
\* records being reset.
C11_ClearRemovesAllFourRecords ==
  (last.op = "clearAllData" /\ ~last.threw)
    => /\ APIKeys = EMPTY_KEYS
       /\ storage[STORAGE_KEYS.API_KEYS] = NullItem
       /\ Stories = <<>>
       /\ CustomCharacters = <<>>
       /\ Settings = DEFAULT_SETTINGS

----------------------------------------------------------------------------
(* Claims about the ambient controller.                                    *)

\* the fades that run or have just completed on the handle they found, with
\* no other change of the volume since they began
UndisturbedFades ==
  {f \in FadeIds : /\ fadeCalls[f].pc \in {"running", "done"}
                   /\ fadeCalls[f].clean
                   /\ fadeCalls[f].handle = ambientAudio}

HandleVolume == ambientAudios[ambientAudio].volume

InRange(v) == 0 <= v /\ v <= One

\* the handle's volume moved strictly toward the target at the latest step
MovedToward(fade) ==
  /\ fade.target < fade.start => HandleVolume < fade.before
  /\ fade.target > fade.start => HandleVolume > fade.before

\* C12 as stated: an undisturbed fade takes exactly 20 steps, after step i
\* the handle's volume is start + (target - start) * i / 20, it moves
\* strictly monotonically toward the target and equals the target at
\* completion.
C12_FadeIsLinear ==
  \A f \in UndisturbedFades :
    LET fade == fadeCalls[f]
    IN /\ HandleVolume = fade.start + ((fade.target - fade.start) * fade.i) \div Steps
       /\ fade.i >= 1 => MovedToward(fade)
       /\ fade.pc = "done" <=> fade.i = Steps
       /\ fade.pc = "done" => HandleVolume = fade.target

\* C12, amended: after step i the handle's volume is
\* start + (target - start) * i / 20 clamped to [0,1]; the fade ends after
\* exactly 20 steps with the clamped target; for a target in [0,1] the volume
\* moves strictly monotonically toward the target at every step and equals
\* it at completion.
C12_FadeIsLinearAndClamped ==
  \A f \in UndisturbedFades :
    LET fade == fadeCalls[f]
        linear == fade.start + ((fade.target - fade.start) * fade.i) \div Steps
    IN /\ HandleVolume = (IF linear < 0 THEN 0 ELSE IF linear > One THEN One ELSE linear)
       /\ fade.pc = "done" <=> fade.i = Steps
       /\ fade.pc = "done" =>
            HandleVolume = (IF fade.target > One THEN One
                            ELSE IF fade.target < 0 THEN 0 ELSE fade.target)
       /\ InRange(fade.target) =>
            /\ HandleVolume = linear
            /\ fade.i >= 1 => MovedToward(fade)

\* an undisturbed fade from 0.3 down to 0.1 has completed
C12_Witness ==
  \E f \in UndisturbedFades :
    /\ fadeCalls[f].pc = "done"
    /\ fadeCalls[f].start = Hundredths(30)
    /\ fadeCalls[f].target = Hundredths(10)
    /\ HandleVolume = Hundredths(10)

\* the statuses one playAmbientMusic call has reported form a prefix of
\* loading -> playing or of loading -> error
StatusSequences == {<<"loading">>, <<"loading", "playing">>, <<"loading", "error">>}

Reporting(c) == ambientCalls[c].statuses # << >>

\* C13: the statuses a playAmbientMusic call reports through its callback are
\* loading -> playing or loading -> error: 'loading' comes first and is
\* eventually followed by exactly one of 'playing' and 'error'
C13_StatusSequence ==
  /\ [](\A c \in CallIds : Reporting(c) => ambientCalls[c].statuses \in StatusSequences)
  /\ \A c \in CallIds :
       (ambientCalls[c].statuses = <<"loading">>) ~> (Len(ambientCalls[c].statuses) = 2)

\* call c found a cached track for its sound type / sent a generation request
FoundCached(c) == ambientCalls[c].hit
Requested(c) == ambientCalls[c].remote
\* call c built its element without a request of its own
Reused(c) == ambientCalls[c].pc = "done" /\ ambientCalls[c].el # 0 /\ ~Requested(c)

\* C14: a playAmbientMusic call that finds a cached track for its sound type
\* reuses it and sends no generation request; any other call sends one and,
\* when it succeeds, the track is in the cache under its sound type, where
\* tracks stay until clearAmbientCache
C14_CacheReuse ==
  /\ [](\A c \in CallIds :
          Reporting(c) => IF FoundCached(c) THEN Reused(c) ELSE Requested(c))
  /\ [][/\ \A c \in CallIds :
             ambientCalls[c].pc = "awaitRemote" /\ ambientCalls'[c].pc = "done"
               => ambientCalls[c].soundType \in ambientCache'
        /\ ~(ambientCache \subseteq ambientCache') => ambientCache' = {}]_vars

----------------------------------------------------------------------------
\* Claims about the narration controls

ControlOps ==
  {"pauseNarration", "resumeNarration", "stopNarration", "seekNarration",
   "setNarrationVolume"}

\* the handle, the playing flag, and every element or sound with its
\* position and volume
ControllerState == <<CurrentHandle, IsNarrationPlaying, webAudios, nativeSounds>>

\* C15: a control called outside its state changes nothing: pauseNarration,
\* resumeNarration, stopNarration, seekNarration and setNarrationVolume with
\* no handle, pauseNarration with a handle while the flag is false, and
\* resumeNarration with a handle while the flag is true, leave the handle,
\* the flag and every element as they were
C15_ControlsAreNoOpsOutsideTheirState ==
  [][LET op == audioLast'.op
     IN (\/ op \in ControlOps /\ CurrentHandle = 0
         \/ op = "pauseNarration" /\ CurrentHandle # 0 /\ ~IsNarrationPlaying
         \/ op = "resumeNarration" /\ CurrentHandle # 0 /\ IsNarrationPlaying)
        => UNCHANGED ControllerState]_vars

\* resumeNarration was called while the flag was true: the sound had finished
\* on its own, and the call did not start it again
C15_Witness ==
  /\ audioLast.op = "resumeNarration"
  /\ PlatformOS = "native"
  /\ currentSound # 0
  /\ nativeIsPlaying
  /\ ~nativeSounds[currentSound].playing

----------------------------------------------------------------------------
\* Claims about operations addressed by story id

\* the story list as it is persisted: the parsed text of the stories record
PersistedStories ==
  IF storage[STORAGE_KEYS.STORIES].kind = "json" THEN storage[STORAGE_KEYS.STORIES].val
  ELSE << >>

Absent(id) == \A i \in DOMAIN PersistedStories : PersistedStories[i].id # id

\* C16: toggleFavorite(id) and updateStory(id, fields) for an id that is not
\* in the store write nothing (toggleFavorite returns false, neither throws);
\* a fault-free updateStory(id, fields) for an id in the store persists the
\* list with the fields laid over the first record with that id, and every
\* other record and the order as they were
C16_AbsentIdLeavesStoreUntouched ==
  [][LET op == last'.op
         id == last'.id
         fields == last'.arg
         list == PersistedStories
     IN /\ (op \in {"toggleFavorite", "updateStory"} /\ Absent(id))
             => /\ storage' = storage
                /\ ~last'.threw
                /\ ~last'.retBool
        /\ (op = "updateStory" /\ ~Absent(id) /\ ~last'.rfail /\ ~last'.wfail)
             => \E i \in DOMAIN list :
                  /\ list[i].id = id
                  /\ \A j \in 1 .. (i - 1) : list[j].id # id
                  /\ PersistedStories' =
                       [k \in DOMAIN list |->
                          IF k # i THEN list[k]
                          ELSE [f \in DOMAIN list[i] \cup DOMAIN fields |->
                                  IF f \in DOMAIN fields THEN fields[f] ELSE list[i][f]]]
                  /\ storage'[STORAGE_KEYS.STORIES].kind = "json"]_vars

\* updateStory has attached audio to the first of two stories saved under
\* one id, among three stored stories
C16_Witness ==
  /\ last.op = "updateStory"
  /\ FaultFree
  /\ Len(PersistedStories) = 3
  /\ \E i, j \in DOMAIN PersistedStories :
       /\ i < j
       /\ PersistedStories[i].id = last.id
       /\ PersistedStories[j].id = last.id
       /\ "audioUrl" \in DOMAIN PersistedStories[i]
       /\ "audioUrl" \notin DOMAIN PersistedStories[j]

\* C17: no two records of the persisted story list have the same id
C17_StoryIdsAreUnique ==
  \A i, j \in DOMAIN PersistedStories :
    i # j => PersistedStories[i].id # PersistedStories[j].id

\* the fields of a story record that may be modified after its creation
MutableFields == {"isFavorite", "audioUrl"}

\* C18: every field of a stored story other than isFavorite and audioUrl,
\* mode and settings among them, is as it was when the story was created
C18_OnlyFavoriteAndAudioChange ==
  \A i \in DOMAIN PersistedStories :
    LET story == PersistedStories[i]
        created == BaseStory(story.id)
    IN /\ DOMAIN story \subseteq DOMAIN created \cup MutableFields
       /\ \A f \in DOMAIN created \ MutableFields : story[f] = created[f]

----------------------------------------------------------------------------
\* Claims about failures and the playing flag of the narration controller

\* the playNarration call that failed last rejected its promise
Thrown(c) == narrationCalls[c].pc = "threw"

\* C19: when playNarration fails to load or to start its audio, the call
\* does not throw, no handle is left and isNarrationPlaying() is false
C19_PlaybackFailureLeavesIdle ==
  audioLast.op = "playThrew"
    => /\ ~Thrown(audioLast.call)
       /\ CurrentHandle = 0
       /\ ~IsNarrationPlaying

\* the audio of the current handle is playing
HandleIsPlaying ==
  /\ CurrentHandle # 0
  /\ IF PlatformOS = "web" THEN webAudios[webAudioElement].playing
     ELSE nativeSounds[currentSound].playing

\* C20: isNarrationPlaying() is true exactly when a handle is loaded and its
\* audio is playing; it is never true while no handle is loaded.  The states
\* in which a playNarration or stopNarration call is suspended, where the flag
\* is about to be written, are left out.
C20_PlayingFlagReflectsSession ==
  NoCallInFlight => (IsNarrationPlaying <=> HandleIsPlaying)

----------------------------------------------------------------------------
\* Claims about the screens

\* C21: when startup has completed, and after a successful save of the API
\* keys, the key variable of each of the three clients equals the persisted
\* key; a failed save leaves the key variables as they were
C21_KeysFollowStore ==
  /\ (appLast.op = "prepare" /\ ~appLast.rfail) => MemoryKeys = APIKeys
  /\ (appLast.op = "saveAPIKeys" /\ appLast.ok) => MemoryKeys = APIKeys
  /\ (appLast.op = "saveAPIKeys" /\ ~appLast.ok) => MemoryKeys = appLast.preKeys

\* C22: when the reader screen has generated narration for a persisted
\* story, the persisted story carries the new audioUrl, so getStoryById
\* returns it
C22_ReaderNarrationIsPersisted ==
  (appLast.op = "handleGenerateNarration" /\ appLast.ok) =>
    LET index == FindIndex(Stories, appLast.id)
    IN /\ index \in DOMAIN Stories
       /\ "audioUrl" \in DOMAIN Stories[index]
       /\ Stories[index].audioUrl = appLast.uri

\* the first marker of a kind in a text, 0 for none
FirstMark(text, mark) ==
  IF \E i \in DOMAIN text : text[i] = mark
  THEN CHOOSE i \in DOMAIN text : text[i] = mark /\ \A j \in 1 .. (i - 1) : text[j] # mark
  ELSE 0

\* what follows position i up to the end of its line, and up to the end
RestOfLine(text, i) ==
  SelectSeq([k \in 1 .. Len(text) |-> <<k, text[k]>>],
            LAMBDA e : e[1] > i /\ \A j \in (i + 1) .. e[1] : text[j] # LineBreak)
Remainder(text, i) == SubSeq(text, i + 1, Len(text))
PiecesOf(indexed) == [k \in DOMAIN indexed |-> indexed[k][2]]

Answered == storyResult.text # << >>

\* C23 as stated: a response with both markers gives the trimmed rest of the
\* TITLE: line as title and the trimmed text after STORY: as content; any
\* other response gives the raw response as content and the fallback title;
\* success is true and no error is set
C23_ConventionOrFallback ==
  LET text == storyResult.text
      r == storyResult.result
      t == FirstMark(text, TITLE_MARK)
      st == FirstMark(text, STORY_MARK)
  IN Answered =>
       /\ r.success /\ r.error = ""
       /\ IF t # 0 /\ st # 0
          THEN /\ r.title = Trim(PiecesOf(RestOfLine(text, t)))
               /\ r.content = Trim(Remainder(text, st))
          ELSE /\ r.title = FALLBACK_TITLE
               /\ r.content = text

\* C23, amended: the two markers are looked for independently.  Without a
\* TITLE: marker the title is the fallback; with text on the line of the
\* first TITLE: marker the title is that text, trimmed.  Without a STORY:
\* marker the content is the raw response; with text after the first STORY:
\* marker the content is that text, trimmed.  success is true, no error.
C23_MarkersParsedIndependently ==
  LET text == storyResult.text
      r == storyResult.result
      t == FirstMark(text, TITLE_MARK)
      st == FirstMark(text, STORY_MARK)
      line == Trim(PiecesOf(RestOfLine(text, t)))
      body == Trim(Remainder(text, st))
  IN Answered =>
       /\ r.success /\ r.error = ""
       /\ t = 0 => r.title = FALLBACK_TITLE
       /\ (t # 0 /\ line # << >>) => r.title = line
       /\ st = 0 => r.content = text
       /\ (st # 0 /\ body # << >>) => r.content = body

C23_Witness ==
  /\ storyResult.text = <<TITLE_MARK, "Once", LineBreak, STORY_MARK, "Once">>
  /\ storyResult.result.title = <<"Once">>
  /\ storyResult.result.content = <<"Once">>

----------------------------------------------------------------------------
\* Claims about the image clients

\* a generateCharacterImage call runs up to its return or its first await
ImageCallBegins == imageCall.pc # "request" /\ imageCall' # imageCall

Unprompted(call) ==
  /\ call.customPrompt = ""
  /\ \A i \in DOMAIN BUILTIN_CHARACTERS : BUILTIN_CHARACTERS[i].id # call.characterId

\* the call returned at once with this error, made no request and left the
\* caches alone
FailedAtOnce(error) ==
  /\ imageCall'.pc = "done"
  /\ imageCall'.result = [imageUrl |-> "", success |-> FALSE, error |-> error]
  /\ imageCall'.outcomes = << >>
  /\ imageCache' = imageCache

\* C24 as stated: generateCharacterImage without a provider key gives the
\* configuration error, and with a key but without any prompt for the id the
\* not-found error; no remote call is made and the cache is unchanged
C24_NoKeyOrNoPromptFails ==
  [][ImageCallBegins =>
       /\ imageCall'.key = "" => FailedAtOnce("not configured")
       /\ (imageCall'.key # "" /\ Unprompted(imageCall')) => FailedAtOnce("no prompt")]_vars

\* C24, amended: the cache is consulted first.  A call that is not served
\* from the cache gives the configuration error without a key and the
\* not-found error with a key but without a prompt, makes no remote call
\* and leaves the cache unchanged; a call served from the cache succeeds
\* with the cached image whatever the key and the prompt are.
C24_UncachedCallFails ==
  [][ImageCallBegins =>
       /\ (~imageCall'.hit /\ imageCall'.key = "") => FailedAtOnce("not configured")
       /\ (~imageCall'.hit /\ imageCall'.key # "" /\ Unprompted(imageCall'))
            => FailedAtOnce("no prompt")
       /\ imageCall'.hit =>
            /\ imageCall'.pc = "done"
            /\ imageCall'.result.success
            /\ imageCall'.result.imageUrl =
                 imageCache[imageCall'.provider][imageCall'.characterId]
            /\ imageCall'.result.imageUrl # ""
            /\ imageCall'.outcomes = << >>
            /\ imageCache' = imageCache]_vars

C24_Witness ==
  /\ imageCall.pc = "done"
  /\ imageCall.key # ""
  /\ Unprompted(imageCall)
  /\ imageCall.result.error = "no prompt"
  /\ \E provider \in Providers, id \in ImageIds : imageCache[provider][id] # ""

----------------------------------------------------------------------------
\* Claims about settings

\* C25: after a fault-free saveSettings whose update carries a partial
\* voiceSettings record v, getSettings().voiceSettings is exactly v (the
\* fields v lacks are neither kept nor re-filled from the defaults), and
\* every top-level field the update lacks keeps its previous value
C25_VoiceSettingsReplacedWhole ==
  (last.op = "saveSettings" /\ FaultFree /\ "voiceSettings" \in DOMAIN last.arg) =>
    /\ Settings.voiceSettings = last.arg.voiceSettings
    /\ DOMAIN Settings.voiceSettings = DOMAIN last.arg.voiceSettings
    /\ \A f \in DOMAIN Settings \ DOMAIN last.arg : Settings[f] = last.preRec[f]
    /\ DOMAIN Settings = DOMAIN DEFAULT_SETTINGS

C25_Witness ==
  /\ last.op = "saveSettings" /\ FaultFree
  /\ "voiceSettings" \in DOMAIN last.arg
  /\ DOMAIN last.arg.voiceSettings # DOMAIN DEFAULT_VOICE_SETTINGS
  /\ DOMAIN last.preRec.voiceSettings # DOMAIN last.arg.voiceSettings
  /\ last.preRec.voiceSettings # DEFAULT_VOICE_SETTINGS
  /\ \E f \in DOMAIN last.preRec \ DOMAIN last.arg : last.preRec[f] # DEFAULT_SETTINGS[f]

----------------------------------------------------------------------------
\* Claims about remote calls

Last(seq) == seq[Len(seq)]

\* C26: a generateCharacterImage call of the Gemini client makes at most 3
\* requests, one more only after a 429 answer; any other failure and an
\* answer without an image end the call at once; the cache is written only
\* with a successful result; the DALL-E client, generateStory and
\* generateNarration make at most one request per call
C26_RetriesOnlyOnRateLimit ==
  [][/\ (ImageAwaited /\ imageCall' # imageCall) =>
          /\ Len(imageCall'.outcomes) = Len(imageCall.outcomes) + 1
          /\ Len(imageCall'.outcomes) <= 3
          /\ imageCall'.pc \in {"request", "done"}
          /\ imageCall'.pc = "request" =>
               /\ imageCall'.provider = "gemini"
               /\ Last(imageCall'.outcomes) = "rateLimited"
          /\ Last(imageCall'.outcomes) \in {"noImage", "blocked", "otherError"} =>
               /\ imageCall'.pc = "done"
               /\ ~imageCall'.result.success
          /\ imageCall'.provider = "dalle" => imageCall'.pc = "done"
          /\ imageCache' # imageCache =>
               /\ Last(imageCall'.outcomes) = "image"
               /\ imageCall'.result.success
               /\ imageCache' = [imageCache EXCEPT
                     ![imageCall.provider][imageCall.characterId] = imageCall'.result.imageUrl]
     /\ ~ImageAwaited => imageCache' = imageCache
     /\ lastCall' # lastCall => networkCalls' \in {networkCalls, networkCalls + 1}
     /\ lastCall' = lastCall => networkCalls' = networkCalls]_vars

C26_Witness ==
  /\ imageCall.pc = "done"
  /\ imageCall.provider = "gemini"
  /\ imageCall.outcomes = <<"rateLimited", "rateLimited", "rateLimited">>
  /\ ~imageCall.result.success
  /\ networkCalls > 0

----------------------------------------------------------------------------
\* Claims about the reader screen's music

Music == ambientAudios[ambientAudio]
MusicOn == reader.isAmbientPlaying /\ ambientAudio # 0

\* C27: when narration starts or resumes while the music plays, the music is
\* at or below the level it had; when narration pauses or finishes, the
\* music is back at the level it had before it was lowered
C27_DuckAndRestore ==
  /\ (reader.op \in {"play", "resume"} /\ MusicOn) => Music.volume <= reader.level
  /\ (reader.op \in {"pause", "finished"} /\ MusicOn) => Music.volume = reader.level

----------------------------------------------------------------------------
\* Claims about interleaved and failing storage operations

\* the list after operation a and then operation b, each run on its own
InTurn(a, b, list) == WrittenList(b.op, b.id, WrittenList(a.op, a.id, list))

Kept(before, now, deleted) ==
  \A i \in DOMAIN before :
    before[i].id # deleted => \E j \in DOMAIN now : now[j] = before[i]

\* C29: when the read inside saveStory, deleteStory, saveCustomCharacter,
\* deleteCustomCharacter or saveSettings fails and the operation completes,
\* every story, custom character and setting value persisted before that the
\* operation did not target is still there, unchanged
C29_FailedReadKeepsOtherData ==
  (last.rfail /\ ~last.wfail) =>
    /\ last.op = "saveStory" => Kept(last.preList, Stories, "")
    /\ last.op = "deleteStory" => Kept(last.preList, Stories, last.id)
    /\ last.op = "saveCustomCharacter" => Kept(last.preList, CustomCharacters, "")
    /\ last.op = "deleteCustomCharacter" => Kept(last.preList, CustomCharacters, last.id)
    /\ last.op = "saveSettings" =>
         \A f \in DOMAIN last.preRec \ DOMAIN last.arg : Settings[f] = last.preRec[f]

----------------------------------------------------------------------------
\* Claims about the tracked ambient volume

NoFadeRunning == \A f \in FadeIds : fadeCalls[f].pc # "running"

\* C30: getAmbientVolume() lies in [0,1] after any calls with any volumes,
\* and with an active handle and no fade in progress it equals the handle's
\* volume
C30_TrackedVolumeValid ==
  /\ 0 <= currentAmbientVolume /\ currentAmbientVolume <= One
  /\ (ambientAudio # 0 /\ NoFadeRunning) =>
       currentAmbientVolume = ambientAudios[ambientAudio].volume

====
